---- MODULE Spec2Model ----
(***************************************************************************)
(* Sandbox lifecycle client of the remote-agent extension: the MCP tool    *)
(* handlers (create, status, list, delete, pause, resume, execute) of the  *)
(* three server variants of the repository:                                *)
(*   "proxyAuth" - src/unnamed/part_002 (proxy API with API key, polling)  *)
(*   "proxy"     - src/remote-sandbox.ts (proxy API, username routing)     *)
(*   "kubectl"   - src/unnamed/part_003 (direct kubectl invocation)        *)
(* A handler runs from one await to the next in each step; the backend     *)
(* (proxy, cluster) answers each round trip nondeterministically.          *)
(***************************************************************************)
EXTENDS Integers, Sequences, FiniteSets, TLC

(***************************************************************************)
(* JavaScript values as the handlers see them.                             *)
(***************************************************************************)
Undefined == [t |-> "undefined"]
Null == [t |-> "null"]
Str(s) == [t |-> "str", s |-> s]
Num(n) == [t |-> "num", n |-> n]
Bool(b) == [t |-> "bool", b |-> b]
Obj(f) == [t |-> "obj", f |-> f]
Arr(items) == [t |-> "arr", items |-> items]
\* a template literal / concatenated text: the sequence of its pieces
Text(toks) == [t |-> "text", toks |-> toks]
\* JSON.stringify(v) embedded in a text
JsonOf(v) == [t |-> "json", of |-> v]
NoFields == [k \in {} |-> Undefined]
EmptyObj == Obj(NoFields)

\* ToBoolean: undefined, null, false, 0 and "" are falsy
Truthy(v) ==
    CASE v.t = "undefined" -> FALSE
      [] v.t = "null" -> FALSE
      [] v.t = "bool" -> v.b
      [] v.t = "num" -> v.n # 0
      [] v.t = "str" -> v.s # ""
      [] v.t = "text" -> v.toks # <<>>
      [] OTHER -> TRUE
\* a || b
Or(a, b) == IF Truthy(a) THEN a ELSE b
\* a ?? b
Nullish(a, b) == IF a.t \in {"undefined", "null"} THEN b ELSE a
\* property read v.k: a TypeError on undefined and null, undefined on a
\* primitive or a missing key
CanRead(v) == v.t \notin {"undefined", "null"}
Get(v, k) == IF v.t = "obj" /\ k \in DOMAIN v.f THEN v.f[k] ELSE Undefined
\* v?.k
GetOpt(v, k) == IF CanRead(v) THEN Get(v, k) ELSE Undefined

\* JSON.stringify followed by the caller's parse: keys whose value is
\* undefined are dropped, at every level
RECURSIVE Stringify(_)
Stringify(v) ==
    IF v.t = "obj"
    THEN LET keep == {k \in DOMAIN v.f : v.f[k].t # "undefined"}
         IN  Obj([k \in keep |-> Stringify(v.f[k])])
    ELSE IF v.t = "arr"
    THEN Arr([i \in DOMAIN v.items |-> Stringify(v.items[i])])
    ELSE v

(***************************************************************************)
(* Completions of a piece of handler code: it returns a value or throws    *)
(* an Error with a message.                                                *)
(***************************************************************************)
Return(v) == [kind |-> "return", value |-> v]
Throw(msg) == [kind |-> "throw", value |-> msg]

\* messages of the runtime's own errors
FetchFailed == Text(<<Str("fetch failed")>>)
JsonSyntaxError == Text(<<Str("Unexpected token in JSON")>>)
NullTypeError(k) == Text(<<Str("Cannot read properties of null (reading '"), Str(k), Str("')")>>)

\* catch (error) { return {success: false, error: error.message} }
FailureShape(msg) == Stringify(Obj([success |-> Bool(FALSE), error |-> msg]))
\* A handler without the try/catch: the error leaves the handler.
HandlerCatchMissing(c) == c
\* try { ... } catch (error: any) { return { content: ... } } around every
\* handler body
HandlerCatch(c) ==
    IF c.kind = "throw" THEN Return(FailureShape(c.value)) ELSE c

IsFailureShape(r) ==
    /\ r.t = "obj"
    /\ DOMAIN r.f = {"success", "error"}
    /\ r.f["success"] = Bool(FALSE)
    /\ r.f["error"].t = "text"
    /\ r.f["error"].toks # <<>>

(***************************************************************************)
(* Bounds and program constants.                                           *)
(***************************************************************************)
Names == {"s1", "s2"}
\* name: z.string() admits every string, the empty one included; the
\* backend holds a state for every name a request can address
Targets == Names \cup {""}
Procs == {1, 2}
Profiles == {"proxyAuth", "proxy", "kubectl"}
HttpProfiles == {"proxyAuth", "proxy"}
maxAttempts == 12
\* for (let attempt = 0; attempt <= maxAttempts; attempt++): one pass too many
LoopConditionOffByOne(attempt) == attempt <= maxAttempts
\* for (let attempt = 0; attempt < maxAttempts; attempt++)
LoopCondition(attempt) == attempt < maxAttempts

States == {"absent", "Pending", "Ready", "Paused"}

VARIABLES
    profile,    \* which server variant is installed (fixed at configuration time)
    cfgFile,    \* the configuration file: "ENOENT", "badjson" or its parsed object
    sandboxes,  \* backend: state of every sandbox name
    created,    \* history: the names a create has reported created, with no
                \* delete request for the name since
    files,      \* the manifests in /tmp: the set of paths that exist
    clock,      \* Date.now()
    call        \* per invocation slot: the handler's position and locals

vars == <<profile, cfgFile, sandboxes, created, files, clock, call>>

(***************************************************************************)
(* Configuration: ~/.config/gemini-remote-sandbox/config.json              *)
(***************************************************************************)
configPath == "~/.config/gemini-remote-sandbox/config.json"

ConfigObjects ==
    { Obj([proxyUrl |-> u, apiKey |-> k]) :
        u \in {Undefined, Str("http://proxy")},
        k \in {Undefined, Str("sk_live_key")} }
ConfigFiles ==
    {[state |-> "ENOENT", json |-> Undefined], [state |-> "badjson", json |-> Undefined]}
        \cup {[state |-> "ok", json |-> c] : c \in ConfigObjects}

ConfigNotFound ==
    Text(<<Str("Config file not found at "), Str(configPath),
           Str(". Please create it with at least a '"), Str("proxyUrl"), Str("' field.")>>)
ProxyUrlRequired ==
    Text(<<Str("proxyUrl"), Str(" is required in config.json. Please set it to your proxy URL")>>)
ApiKeyRequired ==
    Text(<<Str("apiKey"), Str(" is required in config.json. Generate one via the admin API")>>)
ProxyUrlNotConfigured ==
    Text(<<Str("proxyUrl"), Str(" not configured. Please set proxyUrl in config.json")>>)

\* loadConfig without the apiKey check
loadConfigAuthNoKeyCheck(file) ==
    IF file.state = "ENOENT" THEN Throw(ConfigNotFound)
    ELSE IF file.state = "badjson" THEN Throw(JsonSyntaxError)
    ELSE IF ~Truthy(Get(file.json, "proxyUrl")) THEN Throw(ProxyUrlRequired)
    ELSE Return(file.json)
\* loadConfig of the API-key proxy server: proxyUrl and apiKey are required
loadConfigAuth(file) ==
    IF file.state = "ENOENT" THEN Throw(ConfigNotFound)
    ELSE IF file.state = "badjson" THEN Throw(JsonSyntaxError)
    ELSE IF ~Truthy(Get(file.json, "proxyUrl")) THEN Throw(ProxyUrlRequired)
    ELSE IF ~Truthy(Get(file.json, "apiKey")) THEN Throw(ApiKeyRequired)
    ELSE Return(file.json)

\* loadConfig of the username-routing proxy server: proxyUrl is required
loadConfigProxy(file) ==
    IF file.state = "ENOENT" THEN Throw(ConfigNotFound)
    ELSE IF file.state = "badjson" THEN Throw(JsonSyntaxError)
    ELSE IF ~Truthy(Get(file.json, "proxyUrl")) THEN Throw(ProxyUrlRequired)
    ELSE Return(file.json)

KubectlDefaults ==
    Obj([username |-> Str("default"), namespace |-> Str("default"),
         defaultImage |-> Str("sandbox-runtime:latest"), defaultPort |-> Num(8888)])
\* loadConfig of the kubectl server: nothing is required, any read or parse
\* error yields the defaults
loadConfigKubectl(file) ==
    IF file.state = "ok" THEN Return(file.json) ELSE Return(KubectlDefaults)

loadConfig(prof, file) ==
    CASE prof = "proxyAuth" -> loadConfigAuth(file)
      [] prof = "proxy" -> loadConfigProxy(file)
      [] prof = "kubectl" -> loadConfigKubectl(file)

(***************************************************************************)
(* Backend round trips: what fetch (or kubectl) hands back.                *)
(***************************************************************************)
Unparsable == [parses |-> FALSE, json |-> Undefined]
Json(v) == [parses |-> TRUE, json |-> v]
\* fetch rejects: the backend could not be reached
FetchRejected == [kind |-> "reject", status |-> 0, body |-> Unparsable]
Http(status, body) == [kind |-> "http", status |-> status, body |-> body]
\* Response.ok
Ok(resp) == resp.kind = "http" /\ resp.status >= 200 /\ resp.status <= 299
NoResponse == [kind |-> "none", status |-> 0, body |-> Unparsable]

(***************************************************************************)
(* The proxy API as the client consumes it (spec section 6): the answers   *)
(* a round trip can get for a sandbox in backend state st, each with the   *)
(* state the sandbox is in afterwards.                                     *)
(***************************************************************************)
SandboxJson(n, st) ==
    Obj([name |-> Str(n), namespace |-> Str("default"),
         serviceFQDN |-> Str("svc.cluster.local"), ready |-> Bool(st = "Ready")])
ErrorBodies ==
    { Unparsable,
      Json(Obj([error |-> Str("quota exceeded")])),
      Json(Obj([message |-> Str("invalid image")])),
      Json(Obj([error |-> Str(""), message |-> Str("bad request")])),
      Json(EmptyObj) }
NotFoundBody == Json(Obj([error |-> Str("sandbox not found")]))
MaxExitCode == 2
\* the values Date.now() takes
MaxTime == 2
ExitCodes == -1..MaxExitCode
ExecBodies ==
    { Json(Obj([success |-> Bool(ok),
                data |-> Obj([output |-> Str("out"), exit_code |-> Num(c),
                              session_id |-> Str("sess-1")])])) :
        c \in ExitCodes, ok \in BOOLEAN }
    \cup { Json(Obj([success |-> Bool(TRUE), data |-> Obj([output |-> Str(""), exit_code |-> Null])])),
           Json(Obj([success |-> Bool(FALSE), message |-> Str("no shell")])),
           Json(Null),
           Unparsable }

Answer(resp, to) == [resp |-> resp, to |-> to]
\* the backend is unreachable or fails internally; nothing changes
Faults(st) ==
    {Answer(FetchRejected, st)} \cup {Answer(Http(500, b), st) : b \in ErrorBodies}

\* a sandbox is a cluster resource and a resource needs a name: the
\* backend refuses to create one without
CreateAnswers(n, st) ==
    Faults(st) \cup
    IF n = "" THEN {Answer(Http(400, b), st) : b \in ErrorBodies}
    ELSE IF st = "absent"
    THEN {Answer(Http(201, b), "Pending") : b \in {Json(SandboxJson(n, "Pending")), Unparsable}}
         \cup {Answer(Http(400, b), st) : b \in ErrorBodies}
    ELSE {Answer(Http(409, Json(Obj([error |-> Str("sandbox already exists")]))), st)}

StatusAnswers(n, st) ==
    Faults(st) \cup
    IF st = "absent"
    THEN {Answer(Http(404, NotFoundBody), st)}
    ELSE {Answer(Http(200, b), st) :
            b \in {Json(SandboxJson(n, st)), Json(EmptyObj), Json(Null), Unparsable}}

DeleteAnswers(n, st) ==
    Faults(st) \cup
    IF st = "absent"
    THEN {Answer(Http(404, NotFoundBody), st)}
    ELSE {Answer(Http(200, b), "absent") :
            b \in {Json(Obj([success |-> Bool(TRUE), message |-> Str("Sandbox deleted")])),
                   Unparsable}}

\* the backend alone decides whether a transition is legal
PauseAnswers(n, st) ==
    Faults(st) \cup
    CASE st = "absent" -> {Answer(Http(404, NotFoundBody), st)}
      [] st = "Ready" -> {Answer(Http(200, Json(SandboxJson(n, "Paused"))), "Paused")}
      [] OTHER -> {Answer(Http(409, Json(Obj([error |-> Str("sandbox is not running")]))), st)}

ResumeAnswers(n, st) ==
    Faults(st) \cup
    CASE st = "absent" -> {Answer(Http(404, NotFoundBody), st)}
      [] st = "Paused" -> {Answer(Http(200, Json(SandboxJson(n, "Ready"))), "Ready")}
      [] OTHER -> {Answer(Http(409, Json(Obj([error |-> Str("sandbox is not paused")]))), st)}

ExecAnswers(n, st) ==
    Faults(st) \cup
    CASE st = "absent" -> {Answer(Http(404, NotFoundBody), st)}
      [] st = "Ready" -> {Answer(Http(200, b), st) : b \in ExecBodies}
      [] OTHER -> {Answer(Http(503, b), st) : b \in ErrorBodies}

\* every order in which the backend may list the sandboxes that exist
Orders(S) ==
    {o \in [1..Cardinality(S) -> S] : \A i, j \in 1..Cardinality(S) : o[i] = o[j] => i = j}
ListJson(sb, o) ==
    Obj([sandboxes |-> Arr([i \in DOMAIN o |-> SandboxJson(o[i], sb[o[i]])]),
         count |-> Num(Len(o))])
ListResponses(sb) ==
    {FetchRejected} \cup {Http(500, b) : b \in ErrorBodies}
    \cup {Http(200, Unparsable)}
    \cup {Http(200, Json(ListJson(sb, o))) : o \in Orders({n \in Names : sb[n] # "absent"})}

(***************************************************************************)
(* The handlers of the proxy servers, from a response to a completion.     *)
(***************************************************************************)
NotFoundMsg(name) == Text(<<Str("Sandbox '"), Str(name), Str("' not found")>>)

\* const errorData = await response.json();
\* throw new Error(`<prefix>${errorData.error || errorData.message}`)
NonOkError(prefix, resp) ==
    IF ~resp.body.parses THEN Throw(JsonSyntaxError)
    ELSE IF ~CanRead(resp.body.json) THEN Throw(NullTypeError("error"))
    ELSE Throw(Text(<<Str(prefix),
                      Or(Get(resp.body.json, "error"), Get(resp.body.json, "message"))>>))

\* if (!response.ok) { if (response.status === 404) throw not found; ... }
\* return JSON.stringify(await response.json())
ForwardOr404(prefix, name, resp) ==
    IF resp.kind = "reject" THEN Throw(FetchFailed)
    ELSE IF ~Ok(resp)
    THEN IF resp.status = 404 THEN Throw(NotFoundMsg(name)) ELSE NonOkError(prefix, resp)
    ELSE IF ~resp.body.parses THEN Throw(JsonSyntaxError)
    ELSE Return(Stringify(resp.body.json))

\* get_sandbox_status reporting a sandbox that is not ready yet as not found
get_sandbox_status_pending_is_404(name, resp) ==
    IF resp.kind = "reject" THEN Throw(FetchFailed)
    ELSE IF ~Ok(resp)
    THEN IF resp.status = 404 THEN Throw(NotFoundMsg(name))
         ELSE NonOkError("Failed to get sandbox status: ", resp)
    ELSE IF ~resp.body.parses THEN Throw(JsonSyntaxError)
    ELSE IF ~Truthy(GetOpt(resp.body.json, "ready")) THEN Throw(NotFoundMsg(name))
    ELSE Return(Stringify(resp.body.json))
\* the get_sandbox_status handler of the proxy servers after the fetch
get_sandbox_status(name, resp) ==
    IF resp.kind = "reject" THEN Throw(FetchFailed)
    ELSE IF ~Ok(resp)
    THEN IF resp.status = 404 THEN Throw(NotFoundMsg(name))
         ELSE NonOkError("Failed to get sandbox status: ", resp)
    ELSE IF ~resp.body.parses THEN Throw(JsonSyntaxError)
    ELSE Return(Stringify(resp.body.json))

delete_sandbox(name, resp) == ForwardOr404("Failed to delete sandbox: ", name, resp)
pause_sandbox(name, resp) == ForwardOr404("Failed to pause sandbox: ", name, resp)
resume_sandbox(name, resp) == ForwardOr404("Failed to resume sandbox: ", name, resp)

\* list_sandboxes handing the entries back in reverse
list_sandboxes_reversed(resp) ==
    LET data == resp.body.json
        l == Get(data, "sandboxes")
    IN  IF resp.kind = "reject" THEN Throw(FetchFailed)
        ELSE IF ~Ok(resp) THEN NonOkError("Failed to list sandboxes: ", resp)
        ELSE IF ~resp.body.parses THEN Throw(JsonSyntaxError)
        ELSE IF l.t # "arr" THEN Return(Stringify(data))
        ELSE Return(Stringify(Obj(
                [sandboxes |-> Arr([i \in DOMAIN l.items |-> l.items[Len(l.items) + 1 - i]]),
                 count |-> Get(data, "count")])))
\* the list_sandboxes handler of the proxy servers after the fetch
list_sandboxes(resp) ==
    IF resp.kind = "reject" THEN Throw(FetchFailed)
    ELSE IF ~Ok(resp) THEN NonOkError("Failed to list sandboxes: ", resp)
    ELSE IF ~resp.body.parses THEN Throw(JsonSyntaxError)
    ELSE Return(Stringify(resp.body.json))

\* execute with `data.data?.exit_code` and no sentinel
ExecResultNoSentinel(name, command, data) ==
    IF ~CanRead(data) THEN Throw(NullTypeError("data"))
    ELSE LET d == Get(data, "data")
         IN  Return(Stringify(Obj(
                 [success |-> Get(data, "success"),
                  sandbox |-> Str(name),
                  command |-> Str(command),
                  result |-> Obj([output |-> Or(GetOpt(d, "output"), Str("")),
                                  exit_code |-> GetOpt(d, "exit_code"),
                                  session_id |-> GetOpt(d, "session_id")])])))
\* execute with `data.data?.exit_code || -1`
ExecResultOrDefault(name, command, data) ==
    IF ~CanRead(data) THEN Throw(NullTypeError("data"))
    ELSE LET d == Get(data, "data")
         IN  Return(Stringify(Obj(
                 [success |-> Get(data, "success"),
                  sandbox |-> Str(name),
                  command |-> Str(command),
                  result |-> Obj([output |-> Or(GetOpt(d, "output"), Str("")),
                                  exit_code |-> Or(GetOpt(d, "exit_code"), Num(-1)),
                                  session_id |-> GetOpt(d, "session_id")])])))
\* the result of execute once the body of an ok response is parsed
ExecResult(name, command, data) ==
    IF ~CanRead(data) THEN Throw(NullTypeError("data"))
    ELSE LET d == Get(data, "data")
             output == Or(GetOpt(d, "output"), Str(""))
             exitCode == Nullish(GetOpt(d, "exit_code"), Num(-1))
         IN  Return(Stringify(Obj(
                 [success |-> Get(data, "success"),
                  sandbox |-> Str(name),
                  command |-> Str(command),
                  result |-> Obj([output |-> output,
                                  exit_code |-> exitCode,
                                  session_id |-> GetOpt(d, "session_id")])])))

send_prompt_to_sandbox(name, command, resp) ==
    IF resp.kind = "reject" THEN Throw(FetchFailed)
    ELSE IF ~Ok(resp)
    THEN IF ~resp.body.parses THEN Throw(JsonSyntaxError)
         ELSE Throw(Text(<<Str("Proxy returned "), Num(resp.status), Str(": "),
                           JsonOf(resp.body.json)>>))
    ELSE IF ~resp.body.parses THEN Throw(JsonSyntaxError)
    ELSE ExecResult(name, command, resp.body.json)

\* create without the `if (!createResponse.ok)` check
create_request_unchecked(resp) ==
    IF resp.kind = "reject" THEN Throw(FetchFailed)
    ELSE IF ~resp.body.parses THEN Throw(JsonSyntaxError)
    ELSE Return(resp.body.json)
\* create: the creation request up to `const createData = await
\* createResponse.json()`; a return means "go on to the status query"
create_request(resp) ==
    IF resp.kind = "reject" THEN Throw(FetchFailed)
    ELSE IF ~Ok(resp) THEN NonOkError("Failed to create sandbox: ", resp)
    ELSE IF ~resp.body.parses THEN Throw(JsonSyntaxError)
    ELSE Return(resp.body.json)

CreatedMsg(name) == Text(<<Str("Sandbox '"), Str(name), Str("' created successfully")>>)

\* the return statement of create reporting ready: true whatever was seen
create_result_always_ready(name, sandboxData, fallback) ==
    IF ~CanRead(sandboxData) THEN Throw(NullTypeError("name"))
    ELSE Return(Stringify(Obj(
            [success |-> Bool(TRUE),
             message |-> CreatedMsg(name),
             sandbox |-> Obj([name |-> Or(Get(sandboxData, "name"), Str(name)),
                              namespace |-> Or(Get(sandboxData, "namespace"), fallback),
                              serviceFQDN |-> Or(Get(sandboxData, "serviceFQDN"), Str("pending")),
                              ready |-> Bool(TRUE)])])))
\* the return statement of create: fallback is what namespace defaults to
\* ('pending' in the API-key server, the configured namespace in the other)
create_result(name, sandboxData, fallback) ==
    IF ~CanRead(sandboxData) THEN Throw(NullTypeError("name"))
    ELSE Return(Stringify(Obj(
            [success |-> Bool(TRUE),
             message |-> CreatedMsg(name),
             sandbox |-> Obj([name |-> Or(Get(sandboxData, "name"), Str(name)),
                              namespace |-> Or(Get(sandboxData, "namespace"), fallback),
                              serviceFQDN |-> Or(Get(sandboxData, "serviceFQDN"), Str("pending")),
                              ready |-> Or(Get(sandboxData, "ready"), Bool(FALSE))])])))

\* the loop body without the break on ready
poll_attempt_no_break(sandboxData, resp) ==
    IF resp.kind = "reject" \/ ~Ok(resp) \/ ~resp.body.parses
    THEN [sandboxData |-> sandboxData, ready |-> FALSE, break |-> FALSE]
    ELSE [sandboxData |-> resp.body.json,
          ready |-> CanRead(resp.body.json) /\ Truthy(Get(resp.body.json, "ready")),
          break |-> FALSE]
\* the loop body with `catch (e) { break; }`
poll_attempt_break_on_error(sandboxData, resp) ==
    IF resp.kind = "reject" THEN [sandboxData |-> sandboxData, ready |-> FALSE, break |-> TRUE]
    ELSE IF ~Ok(resp) THEN [sandboxData |-> sandboxData, ready |-> FALSE, break |-> FALSE]
    ELSE IF ~resp.body.parses THEN [sandboxData |-> sandboxData, ready |-> FALSE, break |-> TRUE]
    ELSE IF ~CanRead(resp.body.json)
    THEN [sandboxData |-> resp.body.json, ready |-> FALSE, break |-> TRUE]
    ELSE [sandboxData |-> resp.body.json,
          ready |-> Truthy(Get(resp.body.json, "ready")),
          break |-> Truthy(Get(resp.body.json, "ready"))]
\* one pass of the polling loop body after the delay: the new sandboxData,
\* the new ready, and whether the loop is left by break.  A rejected fetch,
\* a rejected json() and the TypeError of reading null.ready are all caught
\* by the loop's own catch; json() assigns sandboxData before ready is read
poll_attempt(sandboxData, resp) ==
    IF resp.kind = "reject" THEN [sandboxData |-> sandboxData, ready |-> FALSE, break |-> FALSE]
    ELSE IF ~Ok(resp) THEN [sandboxData |-> sandboxData, ready |-> FALSE, break |-> FALSE]
    ELSE IF ~resp.body.parses THEN [sandboxData |-> sandboxData, ready |-> FALSE, break |-> FALSE]
    ELSE IF ~CanRead(resp.body.json)
    THEN [sandboxData |-> resp.body.json, ready |-> FALSE, break |-> FALSE]
    ELSE [sandboxData |-> resp.body.json,
          ready |-> Truthy(Get(resp.body.json, "ready")),
          break |-> Truthy(Get(resp.body.json, "ready"))]

\* the single status query of the username-routing server's create: a
\* return carries sandboxData
create_status_once(resp) ==
    IF resp.kind = "reject" THEN Throw(FetchFailed)
    ELSE IF ~Ok(resp) THEN Return(EmptyObj)
    ELSE IF ~resp.body.parses THEN Throw(JsonSyntaxError)
    ELSE Return(resp.body.json)

(***************************************************************************)
(* The kubectl server: every cluster operation is one kubectl process.     *)
(***************************************************************************)
\* the outcome of execAsync(cmd): exit status, stdout, stderr
Kubectl(status, body, stderr) ==
    [kind |-> "exec", status |-> status, body |-> body, stderr |-> stderr]
KNotFound == Str("Error from server (NotFound)")
KNameRequired == Str("error: resource name may not be empty")
KUnreachable == Str("Unable to connect to the server")

\* async function kubectl(args, config): stdout, or an Error that wraps the
\* message of the failed process (which ends with its stderr) and the command
kubectl(cmd, resp) ==
    IF resp.status = 0 THEN Return(resp.body)
    ELSE Throw(Text(<<Str("kubectl command failed: "), Str("Command failed: "), cmd,
                      resp.stderr, Str("\nCommand: "), cmd>>))

KCmd(verb, name) == Text(<<Str("kubectl "), Str(verb), Str(name)>>)

KSandboxJson(n, st) ==
    Obj([metadata |-> Obj([name |-> Str(n), namespace |-> Str("default"),
                           creationTimestamp |-> Str("2025-01-01T00:00:00Z")]),
         status |-> Obj([serviceFQDN |-> Str("svc.cluster.local"),
                         conditions |-> Arr(<<Obj([type |-> Str("Ready"),
                                                  status |-> Str(IF st = "Ready" THEN "True" ELSE "False")])>>)])])
\* a sandbox the operator has not reconciled yet has no status
KSandboxJsonNoStatus(n) ==
    Obj([metadata |-> Obj([name |-> Str(n), namespace |-> Str("default"),
                           creationTimestamp |-> Str("2025-01-01T00:00:00Z")])])

KFaults(st) == {Answer(Kubectl(1, Unparsable, KUnreachable), st)}
KGetBodies(n, st) ==
    {Json(KSandboxJson(n, st)), Json(EmptyObj), Unparsable}
        \cup IF st = "Pending" THEN {Json(KSandboxJsonNoStatus(n))} ELSE {}
KGetAnswers(n, st) ==
    KFaults(st) \cup
    IF st = "absent"
    THEN {Answer(Kubectl(1, Unparsable, KNotFound), st)}
    ELSE {Answer(Kubectl(0, b, Str("")), st) : b \in KGetBodies(n, st)}
\* kubectl apply creates the resource, or leaves an existing one in place
KApplyAnswers(n, st) ==
    KFaults(st) \cup
    IF n = "" THEN {Answer(Kubectl(1, Unparsable, KNameRequired), st)}
    ELSE
    {Answer(Kubectl(0, Unparsable, Str("")), IF st = "absent" THEN "Pending" ELSE st)}
KDeleteAnswers(n, st) ==
    KFaults(st) \cup
    IF st = "absent"
    THEN {Answer(Kubectl(1, Unparsable, KNotFound), st)}
    ELSE {Answer(Kubectl(0, Unparsable, Str("")), "absent")}
KListResponses(sb) ==
    {Kubectl(1, Unparsable, KUnreachable), Kubectl(0, Unparsable, Str("")),
     Kubectl(0, Json(EmptyObj), Str(""))}
    \cup {Kubectl(0, Json(Obj([items |-> Arr([i \in DOMAIN o |-> KSandboxJson(o[i], sb[o[i]])])])), Str("")) :
            o \in Orders({n \in Names : sb[n] # "absent"})}
PodJson == Obj([metadata |-> Obj([name |-> Str("pod-1")]), status |-> Obj([phase |-> Str("Running")])])
KPodResponses ==
    {Kubectl(1, Unparsable, KUnreachable), Kubectl(0, Unparsable, Str("")),
     Kubectl(0, Json(Obj([items |-> Arr(<<>>)])), Str("")),
     Kubectl(0, Json(Obj([items |-> Arr(<<PodJson>>)])), Str("")),
     Kubectl(0, Json(Obj([items |-> Arr(<<Obj([metadata |-> Obj([name |-> Str("pod-1")])])>>)])), Str(""))}

\* JSON.parse(stdout)
JsonParse(body) == IF body.parses THEN Return(body.json) ELSE Throw(JsonSyntaxError)

\* sandbox.status?.conditions?.find((c) => c.type === 'Ready')
\* (conditions, when present, is an array in every answer modelled)
ReadyCondition(sandbox) ==
    LET conds == GetOpt(Get(sandbox, "status"), "conditions")
        hits == IF conds.t = "arr"
                THEN {i \in DOMAIN conds.items : Get(conds.items[i], "type") = Str("Ready")}
                ELSE {}
    IN  IF hits = {} THEN Undefined
        ELSE conds.items[CHOOSE i \in hits : \A j \in hits : i <= j]
\* <condition>?.status === 'True'
ReadyIsTrue(sandbox) == Bool(GetOpt(ReadyCondition(sandbox), "status") = Str("True"))

\* the return statement of the kubectl create
create_result_kubectl(name, sandboxData) ==
    IF ~CanRead(sandboxData) THEN Throw(NullTypeError("metadata"))
    ELSE IF ~CanRead(Get(sandboxData, "metadata")) THEN Throw(NullTypeError("name"))
    ELSE Return(Stringify(Obj(
            [success |-> Bool(TRUE),
             message |-> CreatedMsg(name),
             sandbox |-> Obj([name |-> Get(Get(sandboxData, "metadata"), "name"),
                              namespace |-> Get(Get(sandboxData, "metadata"), "namespace"),
                              serviceFQDN |-> Or(GetOpt(Get(sandboxData, "status"), "serviceFQDN"),
                                                 Str("pending")),
                              ready |-> ReadyIsTrue(sandboxData)])])))

\* the pod lookup of get_sandbox_status, errors ignored: podName, podStatus
pod_lookup(resp) ==
    LET unknown == [podName |-> Str("unknown"), podStatus |-> Str("unknown")]
        pods == resp.body.json
        items == Get(pods, "items")
        pod == items.items[1]
    IN  IF resp.status # 0 \/ ~resp.body.parses THEN unknown
        ELSE IF ~CanRead(pods) THEN unknown
        ELSE IF ~(items.t = "arr" /\ Len(items.items) > 0) THEN unknown
        ELSE IF ~CanRead(pod) \/ ~CanRead(Get(pod, "metadata")) THEN unknown
        ELSE IF ~CanRead(Get(pod, "status"))
             THEN [podName |-> Get(Get(pod, "metadata"), "name"), podStatus |-> Str("unknown")]
        ELSE [podName |-> Get(Get(pod, "metadata"), "name"),
              podStatus |-> Get(Get(pod, "status"), "phase")]

\* the return statement of the kubectl get_sandbox_status
status_result_kubectl(sandbox, pod) ==
    IF ~CanRead(Get(sandbox, "metadata")) THEN Throw(NullTypeError("name"))
    ELSE LET ready == ReadyCondition(sandbox)
             st == Get(sandbox, "status")
         IN  Return(Stringify(Obj(
                 [name |-> Get(Get(sandbox, "metadata"), "name"),
                  namespace |-> Get(Get(sandbox, "metadata"), "namespace"),
                  serviceFQDN |-> Or(GetOpt(st, "serviceFQDN"), Str("pending")),
                  service |-> Or(GetOpt(st, "service"), Str("pending")),
                  replicas |-> Or(GetOpt(st, "replicas"), Num(0)),
                  ready |-> Bool(GetOpt(ready, "status") = Str("True")),
                  readyReason |-> GetOpt(ready, "reason"),
                  readyMessage |-> GetOpt(ready, "message"),
                  podName |-> pod.podName,
                  podStatus |-> pod.podStatus,
                  createdAt |-> Get(Get(sandbox, "metadata"), "creationTimestamp")])))

\* list_sandboxes building its entries in a loop that starts one item late
list_result_kubectl_skips_first(resp) ==
    LET out == kubectl(KCmd("get sandboxes", ""), resp)
        parsed == JsonParse(out.value)
        items == Get(parsed.value, "items")
        entry(sb) ==
            Obj([name |-> Get(Get(sb, "metadata"), "name"),
                 namespace |-> Get(Get(sb, "metadata"), "namespace"),
                 serviceFQDN |-> Or(GetOpt(Get(sb, "status"), "serviceFQDN"), Str("pending")),
                 ready |-> ReadyIsTrue(sb),
                 createdAt |-> Get(Get(sb, "metadata"), "creationTimestamp")])
    IN  IF out.kind = "throw" THEN out
        ELSE IF parsed.kind = "throw" THEN parsed
        ELSE IF ~CanRead(parsed.value) THEN Throw(NullTypeError("items"))
        ELSE IF items.t # "arr" THEN Throw(NullTypeError("map"))
        ELSE Return(Stringify(Obj(
                [count |-> Num(Len(items.items)),
                 sandboxes |-> Arr([i \in 1..(Len(items.items) - 1) |->
                                        entry(items.items[i + 1])])])))
\* the kubectl list_sandboxes after the process returned
list_result_kubectl(resp) ==
    LET out == kubectl(KCmd("get sandboxes", ""), resp)
        parsed == JsonParse(out.value)
        items == Get(parsed.value, "items")
        entry(sb) ==
            Obj([name |-> Get(Get(sb, "metadata"), "name"),
                 namespace |-> Get(Get(sb, "metadata"), "namespace"),
                 serviceFQDN |-> Or(GetOpt(Get(sb, "status"), "serviceFQDN"), Str("pending")),
                 ready |-> ReadyIsTrue(sb),
                 createdAt |-> Get(Get(sb, "metadata"), "creationTimestamp")])
    IN  IF out.kind = "throw" THEN out
        ELSE IF parsed.kind = "throw" THEN parsed
        ELSE IF ~CanRead(parsed.value) THEN Throw(NullTypeError("items"))
        ELSE IF items.t # "arr" THEN Throw(NullTypeError("map"))
        ELSE Return(Stringify(Obj(
                [count |-> Num(Len(items.items)),
                 sandboxes |-> Arr([i \in DOMAIN items.items |-> entry(items.items[i])])])))

DeletedMsg(name) == Text(<<Str("Sandbox '"), Str(name), Str("' deleted successfully")>>)
\* the kubectl delete_sandbox after the process returned
delete_result_kubectl(name, resp) ==
    LET out == kubectl(KCmd("delete sandbox ", name), resp)
    IN  IF out.kind = "throw" THEN out
        ELSE Return(Stringify(Obj([success |-> Bool(TRUE), message |-> DeletedMsg(name)])))

(***************************************************************************)
(* Invocations.  A slot of call holds one running handler: its arguments,  *)
(* its position (pc), its locals, the round trips it has made so far and,  *)
(* once it is done, how it ended.                                          *)
(***************************************************************************)
ReqKinds == {"create", "status", "list", "delete", "pause", "resume", "exec", "push", "pods"}
Commands == {"ls"}
\* image: z.string().optional(), port: z.number().optional(): an argument
\* left out, one that is falsy, one that is not
Arguments ==
    {[image |-> Undefined, port |-> Undefined],
     [image |-> Str(""), port |-> Num(0)],
     [image |-> Str("my-image:1"), port |-> Num(3000)]}
Tools(prof) ==
    IF prof = "kubectl" THEN {"create", "status", "execute", "list", "delete"}
    ELSE {"create", "status", "execute", "list", "delete", "pause", "resume"}

IdleCall ==
    [op |-> "none", name |-> "", command |-> "", image |-> Undefined, port |-> Undefined,
     pc |-> "idle", config |-> Undefined,
     attempt |-> 0, sandboxData |-> EmptyObj, ready |-> FALSE,
     resp |-> NoResponse, n |-> [k \in ReqKinds |-> 0], delays |-> 0,
     outcome |-> "none", result |-> Undefined,
     \* history of the invocation, read by the properties only
     createResp |-> NoResponse, readyAt |-> 0, misses |-> {}, failed |-> FALSE,
     auths |-> {}, reqs |-> {}, tmpFile |-> <<>>, lastGood |-> Undefined,
     \* a status query of a create went out with no delay awaited since the
     \* one before (or since the creation request)
     early |-> FALSE,
     \* the caller has cancelled the request (the handler takes no signal)
     cancelled |-> FALSE]

Upd(r, u) == [k \in DOMAIN r |-> IF k \in DOMAIN u THEN u[k] ELSE r[k]]
\* the answer of a status round trip says the sandbox is ready
ReportsReady(resp) ==
    \/ /\ resp.kind = "http" /\ Ok(resp) /\ resp.body.parses
       /\ Get(resp.body.json, "ready") = Bool(TRUE)
    \/ /\ resp.kind = "exec" /\ resp.status = 0 /\ resp.body.parses
       /\ \E n \in Names : resp.body.json = KSandboxJson(n, "Ready")
\* the answer of a round trip is a success with a body that is an object
Delivered(resp) ==
    /\ IF resp.kind = "exec" THEN resp.status = 0 ELSE Ok(resp)
    /\ resp.body.parses
    /\ resp.body.json.t = "obj"
\* why a round trip delivered nothing
MissKind(resp) ==
    IF resp.kind = "reject" THEN "transport"
    ELSE IF ~(IF resp.kind = "exec" THEN resp.status = 0 ELSE Ok(resp)) THEN "status"
    ELSE IF ~resp.body.parses THEN "unparsable"
    ELSE "not an object"
\* the requests that leave the Authorization header out of the execute call
authorization_not_on_exec(prof, kind, config) ==
    IF prof = "proxyAuth" /\ kind # "exec"
    THEN Text(<<Str("Bearer "), Get(config, "apiKey")>>)
    ELSE Undefined
\* the Authorization header of a request: 'Authorization': `Bearer
\* ${config.apiKey}` on every fetch of the API-key server, none elsewhere
authorization(prof, kind, config) ==
    IF prof = "proxyAuth"
    THEN Text(<<Str("Bearer "), Get(config, "apiKey")>>)
    ELSE Undefined
\* const sandboxImage = image || config.defaultImage, and in the kubectl
\* server || 'sandbox-runtime:latest'
sandboxImage(prof, image, config) ==
    IF prof = "kubectl"
    THEN Or(Or(image, Get(config, "defaultImage")), Str("sandbox-runtime:latest"))
    ELSE Or(image, Get(config, "defaultImage"))
\* the port resolved with the configured default first
sandboxPortConfigFirst(port, config) == Or(Or(Get(config, "defaultPort"), port), Num(8888))
\* const sandboxPort = port || config.defaultPort || 8888
sandboxPort(port, config) == Or(Or(port, Get(config, "defaultPort")), Num(8888))

\* What a request hands to the backend in its path, query, body, manifest
\* or flags: the sandbox name, the owning identity, the namespace, and for
\* a creation the image and the port; undefined is "not in the request".
Addressed(kind, name, identity, namespace) ==
    [kind |-> kind, name |-> name, identity |-> identity, namespace |-> namespace,
     image |-> Undefined, port |-> Undefined, command |-> Undefined]
\* the API-key server: the body of create is {name, image, port}; the
\* other paths hold the name alone, the key stands for the identity
RequestAuth(kind, c) ==
    CASE kind = "create" ->
           Upd(Addressed(kind, Str(c.name), Undefined, Undefined),
               [image |-> sandboxImage("proxyAuth", c.image, c.config),
                port |-> sandboxPort(c.port, c.config)])
      [] kind = "list" -> Addressed(kind, Undefined, Undefined, Undefined)
      [] kind = "exec" ->
           Upd(Addressed(kind, Str(c.name), Undefined, Undefined), [command |-> Str(c.command)])
      [] OTHER -> Addressed(kind, Str(c.name), Undefined, Undefined)
\* the requests with the configured username as it is, not defaulted,
\* everywhere but in create
RequestProxyUnresolved(kind, c) ==
    LET username == IF kind = "create" THEN Or(Get(c.config, "username"), Str("default"))
                    ELSE Get(c.config, "username")
        namespace == Or(Get(c.config, "namespace"), Str("default"))
    IN  CASE kind = "create" ->
               Upd(Addressed(kind, Str(c.name), username, namespace),
                   [image |-> sandboxImage("proxy", c.image, c.config),
                    port |-> sandboxPort(c.port, c.config)])
          [] kind = "list" -> Addressed(kind, Undefined, Undefined, Undefined)
          [] kind = "status" -> Addressed(kind, Str(c.name), username, Undefined)
          [] kind = "exec" ->
               Upd(Addressed(kind, Str(c.name), username, Undefined),
                   [command |-> Str(c.command)])
          [] kind = "push" -> Addressed(kind, Str(c.name), username, Undefined)
          [] OTHER -> Addressed(kind, Str(c.name), username, namespace)
\* the username-routing server: username and namespace default to
\* 'default'; create sends both in its body, status and execute put the
\* username in the path, delete, pause and resume add ?namespace=, list
\* sends neither
RequestProxy(kind, c) ==
    LET username == Or(Get(c.config, "username"), Str("default"))
        namespace == Or(Get(c.config, "namespace"), Str("default"))
    IN  CASE kind = "create" ->
               Upd(Addressed(kind, Str(c.name), username, namespace),
                   [image |-> sandboxImage("proxy", c.image, c.config),
                    port |-> sandboxPort(c.port, c.config)])
          [] kind = "list" -> Addressed(kind, Undefined, Undefined, Undefined)
          [] kind = "status" -> Addressed(kind, Str(c.name), username, Undefined)
          [] kind = "exec" ->
               Upd(Addressed(kind, Str(c.name), username, Undefined),
                   [command |-> Str(c.command)])
          [] kind = "push" -> Addressed(kind, Str(c.name), username, Undefined)
          [] OTHER -> Addressed(kind, Str(c.name), username, namespace)
\* the kubectl server: the manifest holds name, image, port and the user
\* label; every kubectl process gets -n <namespace> when one is configured
\* and no flag otherwise; execute and the settings push go through the
\* proxy at /<username>/<name>
RequestKubectl(kind, c) ==
    LET username == Or(Get(c.config, "username"), Str("default"))
        namespaceFlag == IF Truthy(Get(c.config, "namespace"))
                         THEN Get(c.config, "namespace") ELSE Undefined
    IN  CASE kind = "create" ->
               Upd(Addressed(kind, Str(c.name), username, namespaceFlag),
                   [image |-> sandboxImage("kubectl", c.image, c.config),
                    port |-> sandboxPort(c.port, c.config)])
          [] kind = "list" -> Addressed(kind, Undefined, Undefined, namespaceFlag)
          [] kind = "exec" ->
               Upd(Addressed(kind, Str(c.name), username, Undefined),
                   [command |-> Str(c.command)])
          [] kind = "push" -> Addressed(kind, Str(c.name), username, Undefined)
          [] OTHER -> Addressed(kind, Str(c.name), Undefined, namespaceFlag)
Request(prof, kind, c) ==
    CASE prof = "proxyAuth" -> RequestAuth(kind, c)
      [] prof = "proxy" -> RequestProxy(kind, c)
      [] prof = "kubectl" -> RequestKubectl(kind, c)

\* one more round trip of the kind, answered by resp
Sent(c, kind, resp) ==
    Upd(c, [n |-> [c.n EXCEPT ![kind] = @ + 1],
            reqs |-> c.reqs \cup {Request(profile, kind, c)},
            auths |-> c.auths \cup {authorization(profile, kind, c.config)},
            resp |-> resp,
            readyAt |-> IF kind = "status" /\ c.readyAt = 0 /\ ReportsReady(resp)
                        THEN c.n["status"] + 1 ELSE c.readyAt,
            createResp |-> IF kind = "create" THEN resp ELSE c.createResp,
            early |-> c.early \/ (kind = "status" /\ c.op = "create"
                                     /\ c.delays # c.n["status"] + 1),
            lastGood |-> IF kind = "status" /\ Ok(resp) /\ resp.body.parses
                         THEN resp.body.json ELSE c.lastGood,
            misses |-> IF kind = "status" /\ ~Delivered(resp)
                       THEN c.misses \cup {MissKind(resp)} ELSE c.misses])
\* the handler ends with the completion, through its try/catch
Finish(c, completion) ==
    LET h == HandlerCatch(completion)
    IN  Upd(c, [pc |-> "done",
                outcome |-> IF h.kind = "return" THEN "returned" ELSE "thrown",
                result |-> h.value,
                failed |-> completion.kind = "throw"])
Requests(c) ==
    c.n["create"] + c.n["status"] + c.n["list"] + c.n["delete"] + c.n["pause"]
        + c.n["resume"] + c.n["exec"] + c.n["push"] + c.n["pods"]

\* the names reported created once the invocation c has ended: a create that
\* returned success: true adds its name
Created(c) ==
    IF c.pc = "done" /\ c.op = "create" /\ Get(c.result, "success") = Bool(TRUE)
    THEN created \cup {c.name}
    ELSE created

Init ==
    /\ profile \in Profiles
    /\ cfgFile \in ConfigFiles
    /\ sandboxes = [n \in Targets |-> "absent"]
    /\ created = {}
    /\ files = {}
    /\ clock = 1
    /\ call = [p \in Procs |-> IdleCall]

\* the outer caller invokes a tool
Invoke(p) ==
    /\ call[p].pc \in {"idle", "done"}
    /\ \E op \in Tools(profile), name \in Names, command \in Commands :
         call' = [call EXCEPT ![p] =
                    Upd(IdleCall, [op |-> op,
                                   name |-> IF op = "list" THEN "" ELSE name,
                                   command |-> IF op = "execute" THEN command ELSE "",
                                   pc |-> "loadConfig"])]
    /\ UNCHANGED <<profile, cfgFile, sandboxes, created, files, clock>>

\* const config = await loadConfig(), and what the handler checks before
\* its first round trip
LoadConfig(p) ==
    LET c == call[p]
        loaded == loadConfig(profile, cfgFile)
        first == CASE c.op = "create" /\ profile = "kubectl" -> "write"
                   [] c.op = "create" -> "create"
                   [] OTHER -> "request"
    IN  /\ c.pc = "loadConfig"
        /\ call' = [call EXCEPT ![p] =
                IF loaded.kind = "throw" THEN Finish(c, loaded)
                ELSE IF c.op = "execute" /\ ~Truthy(Get(loaded.value, "proxyUrl"))
                THEN Finish(Upd(c, [config |-> loaded.value]), Throw(ProxyUrlNotConfigured))
                ELSE Upd(c, [config |-> loaded.value, pc |-> first])]
        /\ UNCHANGED <<profile, cfgFile, sandboxes, created, files, clock>>

(***************************************************************************)
(* The tools of the two proxy servers.                                     *)
(***************************************************************************)
\* create: POST /api/sandboxes
CreateRequest(p) ==
    LET c == call[p]
    IN  /\ c.pc = "create" /\ profile \in HttpProfiles
        /\ \E a \in CreateAnswers(c.name, sandboxes[c.name]) :
             LET r == create_request(a.resp)
                 c1 == Sent(c, "create", a.resp)
             IN  /\ sandboxes' = [sandboxes EXCEPT ![c.name] = a.to]
                 /\ call' = [call EXCEPT ![p] =
                        IF r.kind = "throw" THEN Finish(c1, r)
                        ELSE Upd(c1, [pc |-> IF profile = "proxyAuth" THEN "poll" ELSE "status"])]
        /\ UNCHANGED <<profile, cfgFile, created, files, clock>>

\* one pass of the loop with the status request and no delay before it
PollAttemptNoDelay(p) ==
    LET c == call[p]
    IN  /\ c.pc = "poll" /\ profile = "proxyAuth"
        /\ LoopCondition(c.attempt)
        /\ \E a \in StatusAnswers(c.name, sandboxes[c.name]) :
             LET r == poll_attempt(c.sandboxData, a.resp)
                 c1 == Upd(Sent(c, "status", a.resp),
                           [sandboxData |-> r.sandboxData,
                            ready |-> r.ready,
                            attempt |-> IF r.break THEN c.attempt ELSE c.attempt + 1])
             IN  /\ sandboxes' = [sandboxes EXCEPT ![c.name] = a.to]
                 /\ call' = [call EXCEPT ![p] =
                        IF r.break \/ ~LoopCondition(c1.attempt)
                        THEN Finish(c1, create_result(c.name, r.sandboxData, Str("pending")))
                        ELSE c1]
        /\ created' = Created(call'[p])
        /\ UNCHANGED <<profile, cfgFile, files, clock>>
\* create of the API-key server: one pass of the polling loop (the 5 s
\* delay, then the status request) and, when the loop ends, the return
PollAttempt(p) ==
    LET c == call[p]
    IN  /\ c.pc = "poll" /\ profile = "proxyAuth"
        /\ LoopCondition(c.attempt)
        /\ \E a \in StatusAnswers(c.name, sandboxes[c.name]) :
             LET r == poll_attempt(c.sandboxData, a.resp)
                 waited == Upd(c, [delays |-> c.delays + 1])
                 c1 == Upd(Sent(waited, "status", a.resp),
                           [sandboxData |-> r.sandboxData,
                            ready |-> r.ready,
                            attempt |-> IF r.break THEN c.attempt ELSE c.attempt + 1])
             IN  /\ sandboxes' = [sandboxes EXCEPT ![c.name] = a.to]
                 /\ call' = [call EXCEPT ![p] =
                        IF r.break \/ ~LoopCondition(c1.attempt)
                        THEN Finish(c1, create_result(c.name, r.sandboxData, Str("pending")))
                        ELSE c1]
        /\ created' = Created(call'[p])
        /\ UNCHANGED <<profile, cfgFile, files, clock>>

\* create of the username-routing server: the 30 s wait and the one status
\* query
CreateStatusOnce(p) ==
    LET c == call[p]
    IN  /\ c.pc = "status" /\ profile = "proxy"
        /\ \E a \in StatusAnswers(c.name, sandboxes[c.name]) :
             LET r == create_status_once(a.resp)
                 c1 == Sent(Upd(c, [delays |-> c.delays + 1]), "status", a.resp)
             IN  /\ sandboxes' = [sandboxes EXCEPT ![c.name] = a.to]
                 /\ call' = [call EXCEPT ![p] =
                        IF r.kind = "throw" THEN Finish(c1, r)
                        ELSE Upd(c1, [sandboxData |-> r.value, pc |-> "push"])]
        /\ UNCHANGED <<profile, cfgFile, created, files, clock>>

\* the settings push without its try/catch: a rejected fetch is thrown on
config_push_unguarded(resp) ==
    IF resp.kind = "reject" THEN Throw(FetchFailed) ELSE Return(Undefined)
\* try { await fetch(execUrl, {...}) } catch (e) { }: the response is never
\* read and a rejection is ignored
config_push(resp) == Return(Undefined)

\* create from the settings push to the return statement
create_after_push(prof, c, resp) ==
    LET pushed == config_push(resp)
    IN  IF pushed.kind = "throw" THEN pushed
        ELSE IF prof = "kubectl" THEN create_result_kubectl(c.name, c.sandboxData)
        ELSE create_result(c.name, c.sandboxData,
                           Or(Get(c.config, "namespace"), Str("default")))

\* create: the settings command sent to the sandbox, every error ignored,
\* and the return
ConfigPush(p) ==
    LET c == call[p]
    IN  /\ c.pc = "push"
        /\ \E a \in ExecAnswers(c.name, sandboxes[c.name]) :
             /\ sandboxes' = [sandboxes EXCEPT ![c.name] = a.to]
             /\ call' = [call EXCEPT ![p] =
                    Finish(Sent(c, "push", a.resp), create_after_push(profile, c, a.resp))]
        /\ created' = Created(call'[p])
        /\ UNCHANGED <<profile, cfgFile, files, clock>>

\* get_sandbox_status retrying once when the backend could not be reached
GetStatusRetrying(p) ==
    LET c == call[p]
    IN  /\ c.pc = "request" /\ c.op = "status" /\ profile \in HttpProfiles
        /\ \E a \in StatusAnswers(c.name, sandboxes[c.name]) :
             /\ sandboxes' = [sandboxes EXCEPT ![c.name] = a.to]
             /\ call' = [call EXCEPT ![p] =
                    IF a.resp.kind = "reject" /\ c.n["status"] = 0
                    THEN Sent(c, "status", a.resp)
                    ELSE Finish(Sent(c, "status", a.resp), get_sandbox_status(c.name, a.resp))]
        /\ UNCHANGED <<profile, cfgFile, created, files, clock>>
\* get_sandbox_status: GET /api/sandboxes/{name}
GetStatus(p) ==
    LET c == call[p]
    IN  /\ c.pc = "request" /\ c.op = "status" /\ profile \in HttpProfiles
        /\ \E a \in StatusAnswers(c.name, sandboxes[c.name]) :
             /\ sandboxes' = [sandboxes EXCEPT ![c.name] = a.to]
             /\ call' = [call EXCEPT ![p] =
                    Finish(Sent(c, "status", a.resp), get_sandbox_status(c.name, a.resp))]
        /\ UNCHANGED <<profile, cfgFile, created, files, clock>>

ListSandboxes(p) ==
    LET c == call[p]
    IN  /\ c.pc = "request" /\ c.op = "list" /\ profile \in HttpProfiles
        /\ \E resp \in ListResponses(sandboxes) :
             call' = [call EXCEPT ![p] = Finish(Sent(c, "list", resp), list_sandboxes(resp))]
        /\ UNCHANGED <<profile, cfgFile, sandboxes, created, files, clock>>

DeleteSandbox(p) ==
    LET c == call[p]
    IN  /\ c.pc = "request" /\ c.op = "delete" /\ profile \in HttpProfiles
        /\ \E a \in DeleteAnswers(c.name, sandboxes[c.name]) :
             LET r == delete_sandbox(c.name, a.resp)
             IN  /\ sandboxes' = [sandboxes EXCEPT ![c.name] = a.to]
                 /\ created' = created \ {c.name}
                 /\ call' = [call EXCEPT ![p] = Finish(Sent(c, "delete", a.resp), r)]
        /\ UNCHANGED <<profile, cfgFile, files, clock>>

\* pause_sandbox asking for the status first and refusing locally when the
\* sandbox is not reported ready
PauseSandboxPrechecking(p) ==
    LET c == call[p]
    IN  /\ c.pc = "request" /\ c.op = "pause" /\ profile \in HttpProfiles
        /\ \/ /\ c.n["status"] = 0
              /\ \E a \in StatusAnswers(c.name, sandboxes[c.name]) :
                   /\ sandboxes' = [sandboxes EXCEPT ![c.name] = a.to]
                   /\ call' = [call EXCEPT ![p] =
                          IF ReportsReady(a.resp) THEN Sent(c, "status", a.resp)
                          ELSE Finish(Sent(c, "status", a.resp),
                                      Throw(Text(<<Str("Sandbox is not running")>>)))]
           \/ /\ c.n["status"] = 1
              /\ \E a \in PauseAnswers(c.name, sandboxes[c.name]) :
                   /\ sandboxes' = [sandboxes EXCEPT ![c.name] = a.to]
                   /\ call' = [call EXCEPT ![p] =
                          Finish(Sent(c, "pause", a.resp), pause_sandbox(c.name, a.resp))]
        /\ UNCHANGED <<profile, cfgFile, created, files, clock>>
\* pause_sandbox: POST /api/sandboxes/{name}/pause
PauseSandbox(p) ==
    LET c == call[p]
    IN  /\ c.pc = "request" /\ c.op = "pause" /\ profile \in HttpProfiles
        /\ \E a \in PauseAnswers(c.name, sandboxes[c.name]) :
             /\ sandboxes' = [sandboxes EXCEPT ![c.name] = a.to]
             /\ call' = [call EXCEPT ![p] =
                    Finish(Sent(c, "pause", a.resp), pause_sandbox(c.name, a.resp))]
        /\ UNCHANGED <<profile, cfgFile, created, files, clock>>

ResumeSandbox(p) ==
    LET c == call[p]
    IN  /\ c.pc = "request" /\ c.op = "resume" /\ profile \in HttpProfiles
        /\ \E a \in ResumeAnswers(c.name, sandboxes[c.name]) :
             /\ sandboxes' = [sandboxes EXCEPT ![c.name] = a.to]
             /\ call' = [call EXCEPT ![p] =
                    Finish(Sent(c, "resume", a.resp), resume_sandbox(c.name, a.resp))]
        /\ UNCHANGED <<profile, cfgFile, created, files, clock>>

\* execute, in all three servers: POST .../v1/shell/exec through the proxy
SendPrompt(p) ==
    LET c == call[p]
    IN  /\ c.pc = "request" /\ c.op = "execute"
        /\ \E a \in ExecAnswers(c.name, sandboxes[c.name]) :
             /\ sandboxes' = [sandboxes EXCEPT ![c.name] = a.to]
             /\ call' = [call EXCEPT ![p] =
                    Finish(Sent(c, "exec", a.resp),
                           send_prompt_to_sandbox(c.name, c.command, a.resp))]
        /\ UNCHANGED <<profile, cfgFile, created, files, clock>>

(***************************************************************************)
(* The tools of the kubectl server.                                        *)
(***************************************************************************)
WriteFailed == Text(<<Str("EACCES: permission denied, open '/tmp/sandbox-...yaml'")>>)
UnlinkFailed == Text(<<Str("EPERM: operation not permitted, unlink '/tmp/sandbox-...yaml'")>>)
\* fs.unlink of a path that does not exist
UnlinkMissing == Text(<<Str("ENOENT: no such file or directory, unlink '/tmp/sandbox-...yaml'")>>)
\* kubectl apply -f of a path that does not exist
KNoSuchFile == Str("error: the path \"/tmp/sandbox-...yaml\" does not exist")

\* a temporary name that no other invocation can compute
tmpFileUnique(p, name, now) == <<name, now, p>>
\* const tmpFile = `/tmp/sandbox-${name}-${Date.now()}.yaml`
tmpFile(p, name, now) == <<name, now>>

\* create: await fs.writeFile(tmpFile, yaml), which creates or overwrites
KWriteManifest(p) ==
    LET c == call[p]
        path == tmpFile(p, c.name, clock)
    IN  /\ c.pc = "write"
        /\ \E ok \in BOOLEAN :
             /\ call' = [call EXCEPT ![p] =
                        IF ok THEN Upd(c, [pc |-> "apply", tmpFile |-> path])
                        ELSE Finish(Upd(c, [tmpFile |-> path]), Throw(WriteFailed))]
             /\ files' = IF ok THEN files \cup {path} ELSE files
        /\ UNCHANGED <<profile, cfgFile, sandboxes, created, clock>>

\* create: await kubectl(['apply', '-f', tmpFile], config); without the
\* file kubectl fails before it reaches the cluster
KApply(p) ==
    LET c == call[p]
        here == {Answer(Kubectl(1, Unparsable, KNoSuchFile), sandboxes[c.name])}
    IN  /\ c.pc = "apply"
        /\ \E a \in (IF c.tmpFile \in files THEN KApplyAnswers(c.name, sandboxes[c.name])
                      ELSE here) :
             LET r == kubectl(KCmd("apply -f ", c.name), a.resp)
                 c1 == Sent(c, "create", a.resp)
             IN  /\ sandboxes' = [sandboxes EXCEPT ![c.name] = a.to]
                 /\ call' = [call EXCEPT ![p] =
                        IF r.kind = "throw" THEN Finish(c1, r)
                        ELSE Upd(c1, [pc |-> "unlink"])]
        /\ UNCHANGED <<profile, cfgFile, created, files, clock>>

\* create: await fs.unlink(tmpFile)
KUnlink(p) ==
    LET c == call[p]
    IN  /\ c.pc = "unlink"
        /\ IF c.tmpFile \notin files
           THEN /\ call' = [call EXCEPT ![p] = Finish(c, Throw(UnlinkMissing))]
                /\ files' = files
           ELSE \E ok \in BOOLEAN :
                  /\ call' = [call EXCEPT ![p] =
                         IF ok THEN Upd(c, [pc |-> "kstatus"])
                         ELSE Finish(c, Throw(UnlinkFailed))]
                  /\ files' = IF ok THEN files \ {c.tmpFile} ELSE files
        /\ UNCHANGED <<profile, cfgFile, sandboxes, created, clock>>

\* create: the 30 s wait, kubectl get sandbox, JSON.parse; without a
\* proxyUrl there is no settings push and the handler returns here
KCreateStatus(p) ==
    LET c == call[p]
    IN  /\ c.pc = "kstatus"
        /\ \E a \in KGetAnswers(c.name, sandboxes[c.name]) :
             LET out == kubectl(KCmd("get sandbox ", c.name), a.resp)
                 parsed == JsonParse(out.value)
                 c1 == Sent(Upd(c, [delays |-> c.delays + 1]), "status", a.resp)
             IN  /\ sandboxes' = [sandboxes EXCEPT ![c.name] = a.to]
                 /\ call' = [call EXCEPT ![p] =
                        IF out.kind = "throw" THEN Finish(c1, out)
                        ELSE IF parsed.kind = "throw" THEN Finish(c1, parsed)
                        ELSE IF Truthy(Get(c.config, "proxyUrl"))
                        THEN Upd(c1, [sandboxData |-> parsed.value, pc |-> "push"])
                        ELSE Finish(Upd(c1, [sandboxData |-> parsed.value]),
                                    create_result_kubectl(c.name, parsed.value))]
        /\ created' = Created(call'[p])
        /\ UNCHANGED <<profile, cfgFile, files, clock>>

\* get_sandbox_status: kubectl get sandbox, JSON.parse, the pod selector
KGetStatus(p) ==
    LET c == call[p]
    IN  /\ c.pc = "request" /\ c.op = "status" /\ profile = "kubectl"
        /\ \E a \in KGetAnswers(c.name, sandboxes[c.name]) :
             LET out == kubectl(KCmd("get sandbox ", c.name), a.resp)
                 parsed == JsonParse(out.value)
                 c1 == Sent(c, "status", a.resp)
             IN  /\ sandboxes' = [sandboxes EXCEPT ![c.name] = a.to]
                 /\ call' = [call EXCEPT ![p] =
                        IF out.kind = "throw" THEN Finish(c1, out)
                        ELSE IF parsed.kind = "throw" THEN Finish(c1, parsed)
                        ELSE IF ~CanRead(parsed.value)
                        THEN Finish(c1, Throw(NullTypeError("status")))
                        ELSE Upd(c1, [sandboxData |-> parsed.value, pc |-> "pods"])]
        /\ UNCHANGED <<profile, cfgFile, created, files, clock>>

\* the pod lookup without its try/catch: a failed kubectl get pods, or
\* output that is not JSON, ends get_sandbox_status
KPodLookupUnguarded(p) ==
    LET c == call[p]
    IN  /\ c.pc = "pods"
        /\ \E resp \in KPodResponses :
             LET out == kubectl(KCmd("get pods -l ", c.name), resp)
                 parsed == JsonParse(out.value)
             IN  call' = [call EXCEPT ![p] =
                        Finish(Sent(c, "pods", resp),
                               IF out.kind = "throw" THEN out
                               ELSE IF parsed.kind = "throw" THEN parsed
                               ELSE status_result_kubectl(c.sandboxData, pod_lookup(resp)))]
        /\ UNCHANGED <<profile, cfgFile, sandboxes, created, files, clock>>
\* get_sandbox_status: kubectl get pods -l <selector>, and the return
KPodLookup(p) ==
    LET c == call[p]
    IN  /\ c.pc = "pods"
        /\ \E resp \in KPodResponses :
             call' = [call EXCEPT ![p] =
                        Finish(Sent(c, "pods", resp),
                               status_result_kubectl(c.sandboxData, pod_lookup(resp)))]
        /\ UNCHANGED <<profile, cfgFile, sandboxes, created, files, clock>>

KList(p) ==
    LET c == call[p]
    IN  /\ c.pc = "request" /\ c.op = "list" /\ profile = "kubectl"
        /\ \E resp \in KListResponses(sandboxes) :
             call' = [call EXCEPT ![p] = Finish(Sent(c, "list", resp), list_result_kubectl(resp))]
        /\ UNCHANGED <<profile, cfgFile, sandboxes, created, files, clock>>

KDelete(p) ==
    LET c == call[p]
    IN  /\ c.pc = "request" /\ c.op = "delete" /\ profile = "kubectl"
        /\ \E a \in KDeleteAnswers(c.name, sandboxes[c.name]) :
             LET r == delete_result_kubectl(c.name, a.resp)
             IN  /\ sandboxes' = [sandboxes EXCEPT ![c.name] = a.to]
                 /\ created' = created \ {c.name}
                 /\ call' = [call EXCEPT ![p] = Finish(Sent(c, "delete", a.resp), r)]
        /\ UNCHANGED <<profile, cfgFile, files, clock>>

(***************************************************************************)
(* The backend on its own: a provisioned sandbox becomes ready.            *)
(***************************************************************************)
BackendBecomesReady(n) ==
    /\ sandboxes[n] = "Pending"
    /\ sandboxes' = [sandboxes EXCEPT ![n] = "Ready"]
    /\ UNCHANGED <<profile, cfgFile, created, files, clock, call>>

\* the caller cancels a create that is polling (its deadline passed, or the
\* user gave up): the handler is async ({ name, image, port }) => ..., it
\* takes no abort signal and passes none to fetch or to the delay
Cancel(p) ==
    /\ call[p].pc = "poll"
    /\ ~call[p].cancelled
    /\ call' = [call EXCEPT ![p] = Upd(call[p], [cancelled |-> TRUE])]
    /\ UNCHANGED <<profile, cfgFile, sandboxes, created, files, clock>>

\* time passes; only the kubectl server reads the clock
Tick ==
    /\ profile = "kubectl"
    /\ clock < MaxTime
    /\ clock' = clock + 1
    /\ UNCHANGED <<profile, cfgFile, sandboxes, created, files, call>>

Step(p) ==
    \/ Invoke(p)
    \/ LoadConfig(p)
    \/ CreateRequest(p)
    \/ PollAttempt(p)
    \/ CreateStatusOnce(p)
    \/ ConfigPush(p)
    \/ GetStatus(p)
    \/ ListSandboxes(p)
    \/ DeleteSandbox(p)
    \/ PauseSandbox(p)
    \/ ResumeSandbox(p)
    \/ SendPrompt(p)
    \/ KWriteManifest(p)
    \/ KApply(p)
    \/ KUnlink(p)
    \/ KCreateStatus(p)
    \/ KGetStatus(p)
    \/ KPodLookup(p)
    \/ KList(p)
    \/ KDelete(p)

\* one invocation at a time
Sequential == {1}
Next ==
    \/ \E p \in Sequential : Step(p)
    \/ \E p \in Sequential : Cancel(p)
    \/ \E n \in Names : BackendBecomesReady(n)
    \/ Tick

Spec == Init /\ [][Next]_vars

(***************************************************************************)
(* Two invocations at once: the handlers are async functions, so a second  *)
(* tool call can start while the first one awaits; their steps interleave  *)
(* at the awaits.  Each slot serves one create.                            *)
(***************************************************************************)
CompleteConfig == [state |-> "ok", json |-> Obj([proxyUrl |-> Str("http://proxy"),
                                                 apiKey |-> Str("sk_live_key")])]
\* the two servers whose create waits once (the polling create differs from
\* the create of src/remote-sandbox.ts only in its loop)
InitConcurrent ==
    /\ Init
    /\ profile \in {"proxy", "kubectl"}
    /\ cfgFile = CompleteConfig

\* the outer caller invokes create_sandbox on a free slot
InvokeCreate(p) ==
    /\ call[p].pc = "idle"
    /\ \E name \in Names :
         call' = [call EXCEPT ![p] =
                    Upd(IdleCall, [op |-> "create", name |-> name, pc |-> "loadConfig"])]
    /\ UNCHANGED <<profile, cfgFile, sandboxes, created, files, clock>>

StepCreate(p) ==
    \/ InvokeCreate(p)
    \/ LoadConfig(p)
    \/ CreateRequest(p)
    \/ CreateStatusOnce(p)
    \/ ConfigPush(p)
    \/ KWriteManifest(p)
    \/ KApply(p)
    \/ KUnlink(p)
    \/ KCreateStatus(p)

NextConcurrent ==
    \/ \E p \in Procs : StepCreate(p)
    \/ \E n \in Names : BackendBecomesReady(n)
    \/ Tick

SpecConcurrent == InitConcurrent /\ [][NextConcurrent]_vars

(***************************************************************************)
(* The arguments and the optional settings: one invocation of any tool     *)
(* with every argument the input schema admits, under a configuration that *)
(* sets or leaves out the identity and the defaults.                       *)
(***************************************************************************)
InputConfigs ==
    { [state |-> "ok",
       json |-> Obj([proxyUrl |-> Str("http://proxy"), apiKey |-> Str("sk_live_key"),
                     username |-> id.username, namespace |-> id.namespace,
                     defaultImage |-> d.image, defaultPort |-> d.port])] :
        id \in {[username |-> Undefined, namespace |-> Undefined],
                [username |-> Str("alice"), namespace |-> Str("team-a")]},
        d \in {[image |-> Undefined, port |-> Undefined],
               [image |-> Str("registry/runtime:2"), port |-> Num(9000)]} }
\* the backend holds no sandbox, or holds s1 from an earlier session
InitInputs ==
    /\ profile \in Profiles
    /\ cfgFile \in InputConfigs
    /\ sandboxes \in {[n \in Targets |-> IF n = "s1" THEN st ELSE "absent"] :
                         st \in {"absent", "Ready"}}
    /\ created = {}
    /\ files = {}
    /\ clock = 1
    /\ call = [p \in Procs |-> IdleCall]

\* the outer caller invokes a tool once, with arguments the schema admits
InvokeWithArguments(p) ==
    /\ call[p].pc = "idle"
    /\ \E op \in Tools(profile), name \in {"s1", ""}, command \in Commands \cup {""},
          a \in Arguments :
         /\ op # "create" => a.image = Undefined /\ a.port = Undefined
         /\ op # "execute" => command = "ls"
         /\ call' = [call EXCEPT ![p] =
                    Upd(IdleCall, [op |-> op,
                                   name |-> IF op = "list" THEN "" ELSE name,
                                   command |-> IF op = "execute" THEN command ELSE "",
                                   image |-> a.image, port |-> a.port,
                                   pc |-> "loadConfig"])]
    /\ UNCHANGED <<profile, cfgFile, sandboxes, created, files, clock>>

StepInputs(p) ==
    \/ InvokeWithArguments(p)
    \/ LoadConfig(p)
    \/ CreateRequest(p)
    \/ PollAttempt(p)
    \/ CreateStatusOnce(p)
    \/ ConfigPush(p)
    \/ GetStatus(p)
    \/ ListSandboxes(p)
    \/ DeleteSandbox(p)
    \/ PauseSandbox(p)
    \/ ResumeSandbox(p)
    \/ SendPrompt(p)
    \/ KWriteManifest(p)
    \/ KApply(p)
    \/ KUnlink(p)
    \/ KCreateStatus(p)
    \/ KGetStatus(p)
    \/ KPodLookup(p)
    \/ KList(p)
    \/ KDelete(p)

NextInputs ==
    \/ \E p \in Sequential : StepInputs(p)
    \/ \E n \in Names : BackendBecomesReady(n)

SpecInputs == InitInputs /\ [][NextInputs]_vars

TypeOK ==
    /\ profile \in Profiles
    /\ \A p \in Procs : call[p].attempt \in 0..maxAttempts

(***************************************************************************)
(* Properties.                                                             *)
(***************************************************************************)
Mentions(text, word) == \E i \in DOMAIN text.toks : text.toks[i] = Str(word)
\* the creation request got a success status and a parsable body
Accepted(c) ==
    /\ c.createResp.kind \in {"http", "exec"}
    /\ IF c.createResp.kind = "exec" THEN c.createResp.status = 0
       ELSE Ok(c.createResp) /\ c.createResp.body.parses
\* the backend answered that the sandbox does not exist
ReportsAbsent(resp) ==
    \/ resp.kind = "http" /\ resp.status = 404
    \/ resp.kind = "exec" /\ resp.status # 0 /\ resp.stderr = KNotFound
NotFoundResult(name) == Obj([success |-> Bool(FALSE), error |-> NotFoundMsg(name)])

\* C1: every invocation of every tool that has ended has returned a result
\* (no error left the handler), whatever the configuration and the backend
\* did, and every invocation that failed inside returned the shape
\* {success: false, error: <message>}.
C1_NeverThrows ==
    \A p \in Procs :
        call[p].pc = "done" =>
            /\ call[p].outcome = "returned"
            /\ call[p].failed => IsFailureShape(call[p].result)
\* an execute whose ok response had an unparsable body ended as a failure
C1_Witness ==
    \E p \in Procs :
        /\ call[p].pc = "done" /\ call[p].op = "execute" /\ call[p].failed
        /\ Ok(call[p].resp) /\ ~call[p].resp.body.parses

\* C2: the polling loop of create terminates: it never makes more than
\* maxAttempts (12) status round trips; while it polls, the attempt counter is
\* below 12 and equals the number of status requests made, and whatever the
\* backend answers lets the next pass run; and every pass either ends the create (it returns) or raises
\* the attempt counter by one (a cancellation by the caller is no pass).
C2_StatusBound ==
    \A p \in Procs :
        /\ call[p].n["status"] <= maxAttempts
        /\ call[p].pc = "poll" =>
              /\ call[p].attempt < maxAttempts
              /\ call[p].n["status"] = call[p].attempt
              /\ StatusAnswers(call[p].name, sandboxes[call[p].name]) # {}
C2_PollTerminates ==
    [][ /\ C2_StatusBound'
        /\ \A p \in Procs :
             (call[p].pc = "poll" /\ call'[p] # call[p]
                /\ call'[p] # [call[p] EXCEPT !.cancelled = TRUE]) =>
                 \/ call'[p].pc = "done" /\ call'[p].outcome = "returned"
                 \/ call'[p].pc = "poll" /\ call'[p].attempt = call[p].attempt + 1 ]_vars
\* a create returned after using the whole budget of 12 status requests
C2_Witness ==
    \E p \in Procs :
        /\ call[p].pc = "done" /\ call[p].op = "create" /\ profile = "proxyAuth"
        /\ call[p].n["status"] = maxAttempts /\ call[p].readyAt = 0

\* C3: when the backend first reports ready on status attempt k of a create,
\* the create has made exactly k status requests, makes no further one, and
\* returns a success record with ready = true; the polling create has
\* returned as soon as that answer is handled.
C3_ReadyStopsPolling ==
    \A p \in Procs :
        (call[p].op = "create" /\ call[p].readyAt > 0) =>
            /\ call[p].n["status"] = call[p].readyAt
            /\ profile = "proxyAuth" => call[p].pc = "done"
            /\ call[p].pc = "done" =>
                  /\ call[p].outcome = "returned"
                  /\ Get(call[p].result, "success") = Bool(TRUE)
                  /\ Get(Get(call[p].result, "sandbox"), "ready") = Bool(TRUE)
\* the backend reported ready on the 3rd polling attempt
C3_Witness ==
    \E p \in Procs :
        /\ profile = "proxyAuth" /\ call[p].op = "create" /\ call[p].pc = "done"
        /\ call[p].readyAt = 3 /\ call[p].n["status"] = 3

\* C4: in the polling create, a status attempt that fails (rejected fetch,
\* non-success status, unparsable body) does not end the poll: a create whose
\* creation request was accepted has ended only after the whole budget of
\* status attempts or right after the attempt that reported ready.
C4_OnlyReadyOrExhaustionEnds ==
    \A p \in Procs :
        (profile = "proxyAuth" /\ call[p].op = "create" /\ Accepted(call[p])) =>
            /\ call[p].pc \in {"poll", "done"}
            /\ call[p].pc = "done" =>
                  \/ call[p].n["status"] = maxAttempts
                  \/ call[p].readyAt > 0 /\ call[p].readyAt = call[p].n["status"]
\* attempts failed in all three ways and a later attempt still observed ready
C4_Witness ==
    \E p \in Procs :
        /\ profile = "proxyAuth" /\ call[p].op = "create" /\ call[p].pc = "done"
        /\ {"transport", "status", "unparsable"} \subseteq call[p].misses
        /\ call[p].readyAt = call[p].n["status"] /\ call[p].readyAt > 3

\* C5: a polling create whose creation request was accepted and that never
\* saw a ready answer returns, after exactly 12 status attempts, a success
\* result (not the failure shape) whose ready is false.
C5_TimedOutIsSuccess ==
    \A p \in Procs :
        (profile = "proxyAuth" /\ call[p].op = "create" /\ call[p].pc = "done"
            /\ Accepted(call[p]) /\ call[p].readyAt = 0) =>
            /\ call[p].n["status"] = maxAttempts
            /\ ~IsFailureShape(call[p].result)
            /\ Get(call[p].result, "success") = Bool(TRUE)
            /\ Get(Get(call[p].result, "sandbox"), "ready") = Bool(FALSE)

\* the exit code the backend reported in the body of an ok execute response
ReportedExit(resp) == GetOpt(GetOpt(resp.body.json, "data"), "exit_code")
\* C6: when the execute round trip succeeded and its body reports exit code
\* n (zero or not), execute returns result.exit_code = n and not the failure
\* shape.
C6_ExitCodeIsData ==
    \A p \in Procs :
        (call[p].op = "execute" /\ call[p].pc = "done" /\ call[p].n["exec"] = 1
            /\ Ok(call[p].resp) /\ call[p].resp.body.parses
            /\ ReportedExit(call[p].resp).t = "num") =>
            /\ call[p].outcome = "returned"
            /\ ~IsFailureShape(call[p].result)
            /\ Get(Get(call[p].result, "result"), "exit_code") = ReportedExit(call[p].resp)
\* the backend reported exit code 2
C6_Witness ==
    \E p \in Procs :
        /\ call[p].op = "execute" /\ call[p].pc = "done" /\ Ok(call[p].resp)
        /\ call[p].resp.body.parses /\ ReportedExit(call[p].resp) = Num(2)
        /\ Get(Get(call[p].result, "result"), "exit_code") = Num(2)

\* C7: getStatus answers "Sandbox '<name>' not found" exactly when the
\* backend reported the name absent, and any other non-success answer gives
\* a failure that is not the not-found one.
C7_NotFoundDistinct ==
    \A p \in Procs :
        (call[p].op = "status" /\ call[p].pc = "done" /\ call[p].n["status"] = 1
            /\ call[p].n["pods"] = 0) =>
            /\ ReportsAbsent(call[p].resp) => call[p].result = NotFoundResult(call[p].name)
            /\ (~ReportsAbsent(call[p].resp) /\ call[p].failed) =>
                  /\ IsFailureShape(call[p].result)
                  /\ call[p].result # NotFoundResult(call[p].name)

\* C8: a delete of a name the backend reports absent (never created, or
\* already deleted) answers "Sandbox '<name>' not found", and never success.
C8_DeleteAbsentIsNotFound ==
    \A p \in Procs :
        (call[p].op = "delete" /\ call[p].pc = "done" /\ ReportsAbsent(call[p].resp)) =>
            call[p].result = NotFoundResult(call[p].name)

\* the configuration file is there and has no proxyUrl
LacksEndpoint == cfgFile.state = "ok" /\ ~Truthy(Get(cfgFile.json, "proxyUrl"))
\* C9: with a configuration that lacks proxyUrl, create makes no backend
\* round trip at all and ends with a failure whose message names proxyUrl.
C9_ConfigMissingFailsFast ==
    \A p \in Procs :
        (call[p].op = "create" /\ LacksEndpoint) =>
            /\ Requests(call[p]) = 0
            /\ call[p].pc \in {"loadConfig", "done"}
            /\ call[p].pc = "done" =>
                  /\ IsFailureShape(call[p].result)
                  /\ Mentions(Get(call[p].result, "error"), "proxyUrl")

\* the message of an error body: its error field, else its message field
BackendMessage(json) ==
    IF Get(json, "error").t = "str" /\ Get(json, "error") # Str("")
    THEN Get(json, "error") ELSE Get(json, "message")
\* C10: when the backend refuses the creation request (a non-success
\* response, or a failed kubectl apply), create ends at once with a failure,
\* makes no status request and no settings push, and its error text carries
\* the backend's message as it came: "Failed to create sandbox: " followed
\* by the body's error field, else its message field (for kubectl, the
\* stderr of the process).
C10_CreateRejected ==
    \A p \in Procs :
        LET c == call[p]
            r == c.createResp
        IN  (c.op = "create" /\ r.kind \in {"http", "exec"}
                /\ ~(IF r.kind = "exec" THEN r.status = 0 ELSE Ok(r))) =>
                /\ c.pc = "done" /\ c.outcome = "returned"
                /\ IsFailureShape(c.result)
                /\ c.n["status"] = 0 /\ c.n["push"] = 0 /\ Requests(c) = 1
                /\ (r.kind = "http" /\ r.body.parses /\ BackendMessage(r.body.json).t = "str") =>
                      Get(c.result, "error")
                          = Text(<<Str("Failed to create sandbox: "), BackendMessage(r.body.json)>>)
                /\ r.kind = "exec" =>
                      \E i \in DOMAIN Get(c.result, "error").toks :
                          Get(c.result, "error").toks[i] = r.stderr
\* the backend refused with 400 and the message "invalid image"
C10_Witness ==
    \E p \in Procs :
        /\ call[p].op = "create" /\ call[p].pc = "done"
        /\ call[p].createResp = Http(400, Json(Obj([message |-> Str("invalid image")])))
        /\ Get(call[p].result, "error")
              = Text(<<Str("Failed to create sandbox: "), Str("invalid image")>>)

\* the sandbox record the return statement of create can read
Readable(prof, sandboxData) ==
    IF prof = "kubectl" THEN CanRead(sandboxData) /\ CanRead(Get(sandboxData, "metadata"))
    ELSE CanRead(sandboxData)
\* C11: the settings push after create is best-effort: the result create
\* returns after the push is the one it returns for every other answer the
\* push could have got (success, non-success response, rejected fetch), it
\* is a returned result, and whenever the status step left a readable
\* sandbox record it is a success, however the push went.
C11_PushIsBestEffort ==
    [][ \A p \in Procs :
          (call[p].pc = "push" /\ call'[p].pc = "done") =>
              /\ call'[p].n["push"] = 1
              /\ call'[p].outcome = "returned"
              /\ \A a \in ExecAnswers(call[p].name, sandboxes[call[p].name]) :
                    HandlerCatch(create_after_push(profile, call[p], a.resp)).value
                        = call'[p].result
              /\ Readable(profile, call[p].sandboxData) =>
                    Get(call'[p].result, "success") = Bool(TRUE) ]_vars
\* a create returned success although the fetch of its settings push was
\* rejected
C11_Witness ==
    \E p \in Procs :
        /\ call[p].op = "create" /\ call[p].pc = "done" /\ call[p].n["push"] = 1
        /\ call[p].resp = FetchRejected
        /\ Get(call[p].result, "success") = Bool(TRUE)

\* the operations that are one request to the backend, and the kind of it
SingleOps == {"status", "list", "delete", "pause", "resume", "execute"}
OpKind(op) == IF op = "execute" THEN "exec" ELSE op
\* the round trip was answered with a failure: no answer, a non-success
\* status, a non-zero exit
RoundTripFailed(resp) ==
    CASE resp.kind = "reject" -> TRUE
      [] resp.kind = "http" -> ~Ok(resp)
      [] resp.kind = "exec" -> resp.status # 0
      [] OTHER -> FALSE
C13_NoPreCheck ==
    \A p \in Procs :
        LET c == call[p]
            r == c.resp
        IN  (c.op \in {"pause", "resume"} /\ c.pc = "done" /\ c.config # Undefined) =>
              /\ c.n[c.op] = 1 /\ c.n["status"] = 0 /\ Requests(c) = 1
              /\ (Ok(r) /\ r.body.parses) => c.result = Stringify(r.body.json)
              /\ (r.kind = "http" /\ r.status = 404) => c.result = NotFoundResult(c.name)
              /\ (r.kind = "http" /\ ~Ok(r) /\ r.status # 404 /\ r.body.parses
                    /\ BackendMessage(r.body.json).t = "str") =>
                    c.result = FailureShape(Text(<<Str(IF c.op = "pause"
                                                       THEN "Failed to pause sandbox: "
                                                       ELSE "Failed to resume sandbox: "),
                                                   BackendMessage(r.body.json)>>))
\* a pause of a sandbox that is already paused was forwarded, and the
\* backend's refusal came back as the result
C13_Witness ==
    \E p \in Procs :
        /\ call[p].op = "pause" /\ call[p].pc = "done" /\ call[p].n["pause"] = 1
        /\ sandboxes[call[p].name] = "Paused"
        /\ call[p].resp.status = 409
        /\ call[p].result = FailureShape(Text(<<Str("Failed to pause sandbox: "),
                                                 Str("sandbox is not running")>>))

\* C14: in the API-key server every request sent (creation, each polling
\* status request, status, list, delete, pause, resume, execute) carries
\* the header Authorization: Bearer <the apiKey of the configuration>, and
\* that key is a non-empty string; no request goes out without it.
C14_EveryRequestAuthorized ==
    profile = "proxyAuth" =>
        \A p \in Procs :
            /\ Requests(call[p]) > 0 =>
                  /\ Get(cfgFile.json, "apiKey").t = "str"
                  /\ Truthy(Get(cfgFile.json, "apiKey"))
                  /\ call[p].auths = {Text(<<Str("Bearer "), Get(cfgFile.json, "apiKey")>>)}
            /\ Requests(call[p]) = 0 => call[p].auths = {}
\* an execute sent its request with the bearer header
C14_Witness ==
    \E p \in Procs :
        /\ profile = "proxyAuth" /\ call[p].op = "execute" /\ call[p].pc = "done"
        /\ call[p].n["exec"] = 1
        /\ call[p].auths = {Text(<<Str("Bearer "), Str("sk_live_key")>>)}

\* the configuration file has a proxyUrl and no apiKey
LacksApiKey ==
    /\ cfgFile.state = "ok" /\ Truthy(Get(cfgFile.json, "proxyUrl"))
    /\ ~Truthy(Get(cfgFile.json, "apiKey"))
\* C15: in the API-key server, with a configuration that has a proxyUrl and
\* no apiKey, every operation sends no request and ends with a failure whose
\* message names apiKey.
C15_ApiKeyRequired ==
    (profile = "proxyAuth" /\ LacksApiKey) =>
        \A p \in Procs :
            /\ Requests(call[p]) = 0
            /\ call[p].pc \in {"idle", "loadConfig", "done"}
            /\ call[p].pc = "done" =>
                  /\ call[p].outcome = "returned"
                  /\ IsFailureShape(call[p].result)
                  /\ Mentions(Get(call[p].result, "error"), "apiKey")
\* a list ended with the apiKey failure
C15_Witness ==
    \E p \in Procs :
        /\ profile = "proxyAuth" /\ LacksApiKey
        /\ call[p].op = "list" /\ call[p].pc = "done"
        /\ call[p].result = FailureShape(ApiKeyRequired)

\* the status query of the invocation was answered by a healthy backend:
\* with the record of the sandbox, or with the report that it is absent
HealthyStatus(c) ==
    IF profile = "kubectl"
    THEN \/ c.n["pods"] = 0 /\ ReportsAbsent(c.resp)
         \/ /\ c.n["pods"] = 1
            /\ \E st \in States :
                 c.sandboxData \in {KSandboxJson(c.name, st), KSandboxJsonNoStatus(c.name)}
    ELSE \/ ReportsAbsent(c.resp)
         \/ /\ Ok(c.resp) /\ c.resp.body.parses
            /\ \E st \in States : c.resp.body.json = SandboxJson(c.name, st)
\* C16: a getStatus of a name that a create has reported created (and that
\* no delete was sent for since), answered by a healthy backend, returns a
\* record with that name and a boolean ready (Pending or Ready), not the
\* not-found result and not a failure.
C16_CreateThenStatus ==
    \A p \in Procs :
        LET c == call[p]
        IN  (c.op = "status" /\ c.pc = "done" /\ c.name \in created /\ HealthyStatus(c)) =>
              /\ ~IsFailureShape(c.result)
              /\ c.result # NotFoundResult(c.name)
              /\ Get(c.result, "name") = Str(c.name)
              /\ Get(c.result, "ready") \in {Bool(TRUE), Bool(FALSE)}
\* getStatus of a created sandbox that is still provisioning returned its
\* record with ready = false
C16_Witness ==
    \E p \in Procs :
        /\ call[p].op = "status" /\ call[p].pc = "done" /\ call[p].name \in created
        /\ HealthyStatus(call[p])
        /\ sandboxes[call[p].name] = "Pending"
        /\ Get(call[p].result, "name") = Str(call[p].name)
        /\ Get(call[p].result, "ready") = Bool(FALSE)

\* the answer to the list request names every sandbox of the backend once
HealthyList(resp) ==
    \/ /\ resp.kind = "http" /\ Ok(resp) /\ resp.body.parses
    \/ /\ resp.kind = "exec" /\ resp.status = 0 /\ resp.body.parses
       /\ Get(resp.body.json, "items").t = "arr"
\* how often the result of list has an entry of the name
Occurrences(result, name) ==
    LET l == Get(result, "sandboxes")
    IN  IF l.t = "arr"
        THEN Cardinality({i \in DOMAIN l.items : Get(l.items[i], "name") = Str(name)})
        ELSE 0
\* C17: once creates have reported both names created (in either order)
\* and no delete was sent for either, a list that the backend answered
\* returns a result in which each of the two names occurs exactly once.
C17_ListHasBothOnce ==
    \A p \in Procs :
        (call[p].op = "list" /\ call[p].pc = "done" /\ created = Names
            /\ HealthyList(call[p].resp)) =>
            /\ ~IsFailureShape(call[p].result)
            /\ \A n \in Names : Occurrences(call[p].result, n) = 1
\* a list of the kubectl server returned both names, s2 before s1
C17_Witness ==
    \E p \in Procs :
        /\ profile = "kubectl" /\ call[p].op = "list" /\ call[p].pc = "done"
        /\ created = Names
        /\ Get(call[p].result, "sandboxes").t = "arr"
        /\ Len(Get(call[p].result, "sandboxes").items) = 2
        /\ Get(Get(call[p].result, "sandboxes").items[1], "name") = Str("s2")
        /\ Get(Get(call[p].result, "sandboxes").items[2], "name") = Str("s1")

\* C18: two invocations running at once do not interfere on the client
\* side, each ends as it would alone: the manifest a create has written is
\* still there when that create applies it and when it unlinks it, so no
\* create ends with the failure of a missing manifest, which a create
\* running alone cannot get.
C18_ConcurrentAsAlone ==
    \A p \in Procs :
        LET c == call[p]
        IN  /\ c.pc \in {"apply", "unlink"} => c.tmpFile \in files
            /\ (c.pc = "done" /\ c.op = "create") =>
                  /\ c.result # FailureShape(UnlinkMissing)
                  /\ c.createResp.kind = "exec" => c.createResp.stderr # KNoSuchFile

\* the result create returns when the budget of attempts ran out
TimedOutResult(r) ==
    /\ Get(r, "success") = Bool(TRUE)
    /\ Get(Get(r, "sandbox"), "ready") = Bool(FALSE)
\* C19: once the caller has cancelled a create that is polling, the create
\* sends no further status request, and when it ends its result is not the
\* result of a poll that timed out.
C19_CancelStopsPolling ==
    [][ \A p \in Procs :
          (call[p].cancelled /\ call[p].pc = "poll") =>
              /\ call'[p].n["status"] = call[p].n["status"]
              /\ (call'[p].pc = "done" /\ call'[p].op = "create") =>
                    ~TimedOutResult(call'[p].result) ]_vars

\* the body of a success response is malformed for execute: it does not
\* parse, or it lacks data.output or data.exit_code
MalformedExecBody(resp) ==
    \/ ~resp.body.parses
    \/ GetOpt(GetOpt(resp.body.json, "data"), "output").t # "str"
    \/ ReportedExit(resp).t # "num"
\* the body of a success response is malformed for a sandbox record: it
\* does not parse, or it lacks name or ready
MalformedSandboxBody(resp) ==
    \/ ~resp.body.parses
    \/ GetOpt(resp.body.json, "name").t # "str"
    \/ GetOpt(resp.body.json, "ready").t # "bool"
\* C20: a success response whose body is malformed or lacks the expected
\* fields ends the operation with the failure shape: an execute whose 2xx
\* body lacks output or exit_code, and a polling create whose last status
\* answer was a 2xx with a body that lacks name or ready, never return a
\* result built from defaults.
C20_MalformedBodyIsFailure ==
    \A p \in Procs :
        LET c == call[p]
        IN  /\ (c.op = "execute" /\ c.pc = "done" /\ c.n["exec"] = 1 /\ Ok(c.resp)
                  /\ MalformedExecBody(c.resp)) =>
                  IsFailureShape(c.result)
            /\ (c.op = "create" /\ profile = "proxyAuth" /\ c.pc = "done"
                  /\ c.n["status"] >= 1 /\ Ok(c.resp) /\ MalformedSandboxBody(c.resp)) =>
                  IsFailureShape(c.result)

\* the invocation has an argument that the specification rules out: create
\* without a name, execute without a command
EmptyArgument(c) ==
    \/ c.op = "create" /\ c.name = ""
    \/ c.op = "execute" /\ c.command = ""
\* C21: input validation precedes all I/O: a create with an empty name and
\* an execute with an empty command make no backend request, write no file
\* and start no process, and end with the failure shape.
C21_ValidationBeforeIO ==
    \A p \in Procs :
        LET c == call[p]
        IN  EmptyArgument(c) =>
              /\ Requests(c) = 0
              /\ c.tmpFile = <<>>
              /\ c.pc = "done" => IsFailureShape(c.result)

\* the pieces an error text is made of, those of an embedded text (the
\* kubectl command line) included
Pieces(text) ==
    LET top == {text.toks[i] : i \in DOMAIN text.toks}
    IN  top \cup UNION {{tok.toks[j] : j \in DOMAIN tok.toks} : tok \in {x \in top : x.t = "text"}}
\* the pieces that name the operation: the prefix its handler puts before a
\* backend message, and the verb on its kubectl command line
OperationPieces(op) ==
    CASE op = "create" -> {Str("Failed to create sandbox: "), Str("apply -f ")}
      [] op = "status" -> {Str("Failed to get sandbox status: "), Str("get sandbox ")}
      [] op = "list" -> {Str("Failed to list sandboxes: "), Str("get sandboxes")}
      [] op = "delete" -> {Str("Failed to delete sandbox: "), Str("delete sandbox ")}
      [] op = "pause" -> {Str("Failed to pause sandbox: ")}
      [] op = "resume" -> {Str("Failed to resume sandbox: ")}
      [] OTHER -> {}
\* C22: every failure result that follows a backend round trip contains the
\* operation name, the target sandbox name (list has none) and, where the
\* backend supplied a detail text (the error or message field of an error
\* body, the stderr of kubectl), that text as it came.
C22_FailureNamesOperationTargetDetail ==
    \A p \in Procs :
        LET c == call[p]
            said == Pieces(Get(c.result, "error"))
            r == c.resp
        IN  (c.pc = "done" /\ Requests(c) >= 1 /\ IsFailureShape(c.result)) =>
              /\ said \cap OperationPieces(c.op) # {}
              /\ c.op # "list" => Str(c.name) \in said
              /\ (r.kind = "http" /\ ~Ok(r) /\ r.body.parses
                      /\ BackendMessage(r.body.json).t = "str") =>
                    (BackendMessage(r.body.json) \in said \/ JsonOf(r.body.json) \in said)
              /\ (r.kind = "exec" /\ r.status # 0) => r.stderr \in said

\* the class of a result at the outward contract
OutcomeClass(result, name) ==
    IF ~IsFailureShape(result) THEN "success"
    ELSE IF result = NotFoundResult(name) THEN "NotFound"
    ELSE "failure"
\* the backend answered the round trip about sandbox n faithfully: it said
\* that n does not exist, or it succeeded with a well-formed body
Faithful(resp, n) ==
    \/ resp.kind = "http" /\ resp.status = 404
    \/ resp.kind = "http" /\ Ok(resp) /\ resp.body.parses /\ CanRead(resp.body.json)
          /\ resp.body.json # EmptyObj
    \/ resp.kind = "exec" /\ resp.status # 0 /\ resp.stderr = KNotFound
    \/ resp.kind = "exec" /\ resp.status = 0 /\ resp.body.parses
          /\ \E st \in States : resp.body.json = KSandboxJson(n, st)
    \/ resp.kind = "exec" /\ resp.status = 0 /\ ~resp.body.parses
\* get_sandbox_status of the kubectl server from the answers of its two
\* kubectl processes to the result
get_sandbox_status_kubectl(name, resp, podResp) ==
    LET out == kubectl(KCmd("get sandbox ", name), resp)
        parsed == JsonParse(out.value)
    IN  IF out.kind = "throw" THEN out
        ELSE IF parsed.kind = "throw" THEN parsed
        ELSE IF ~CanRead(parsed.value) THEN Throw(NullTypeError("status"))
        ELSE status_result_kubectl(parsed.value, pod_lookup(podResp))
\* the results of the two profiles agree: the same class and, on success,
\* the same name and ready value (read where each result shape holds them)
SameOutcome(h, k, name, inner) ==
    /\ OutcomeClass(h, name) = OutcomeClass(k, name)
    /\ OutcomeClass(h, name) = "success" =>
          LET hs == IF inner THEN Get(h, "sandbox") ELSE h
              ks == IF inner THEN Get(k, "sandbox") ELSE k
          IN  Get(hs, "name") = Get(ks, "name") /\ Get(hs, "ready") = Get(ks, "ready")
\* C23: the two backend profiles are observationally equivalent: in every
\* backend state, for every sandbox name, getStatus and delete answered
\* faithfully by the backend return results of the same class (success,
\* NotFound, other failure) in the proxy-HTTP implementation and in the
\* kubectl implementation, with the same name and ready value on success;
\* so does the result create builds from the status of a sandbox that
\* exists, and so does list, entry by entry.
C23_ProfilesEquivalent ==
    \A n \in Names :
        LET st == sandboxes[n]
        IN  /\ \A a \in StatusAnswers(n, st), k \in KGetAnswers(n, st), pod \in KPodResponses :
                  (Faithful(a.resp, n) /\ Faithful(k.resp, n) /\ k.resp.body.parses = (k.resp.status = 0)) =>
                     SameOutcome(HandlerCatch(get_sandbox_status(n, a.resp)).value,
                                 HandlerCatch(get_sandbox_status_kubectl(n, k.resp, pod)).value,
                                 n, FALSE)
            /\ \A a \in DeleteAnswers(n, st), k \in KDeleteAnswers(n, st) :
                  (Faithful(a.resp, n) /\ Faithful(k.resp, n)) =>
                     OutcomeClass(HandlerCatch(delete_sandbox(n, a.resp)).value, n)
                        = OutcomeClass(HandlerCatch(delete_result_kubectl(n, k.resp)).value, n)
            /\ st # "absent" =>
                  SameOutcome(HandlerCatch(create_result(n, SandboxJson(n, st), Str("default"))).value,
                              HandlerCatch(create_result_kubectl(n, KSandboxJson(n, st))).value,
                              n, TRUE)
            /\ \A o \in Orders({m \in Names : sandboxes[m] # "absent"}) :
                  LET h == HandlerCatch(list_sandboxes(Http(200, Json(ListJson(sandboxes, o))))).value
                      k == HandlerCatch(list_result_kubectl(
                              Kubectl(0, Json(Obj([items |-> Arr([i \in DOMAIN o |->
                                  KSandboxJson(o[i], sandboxes[o[i]])])])), Str("")))).value
                  IN  /\ ~IsFailureShape(h) /\ ~IsFailureShape(k)
                      /\ Len(Get(h, "sandboxes").items) = Len(Get(k, "sandboxes").items)
                      /\ \A i \in DOMAIN o :
                            /\ Get(Get(h, "sandboxes").items[i], "name")
                                  = Get(Get(k, "sandboxes").items[i], "name")
                            /\ Get(Get(h, "sandboxes").items[i], "ready")
                                  = Get(Get(k, "sandboxes").items[i], "ready")

\* config.username || 'default' and config.namespace || 'default', read
\* from the configuration file
ResolvedIdentity == Or(Get(cfgFile.json, "username"), Str("default"))
ResolvedNamespace == Or(Get(cfgFile.json, "namespace"), Str("default"))
\* C24 as stated: every backend request of every operation carries the
\* resolved identity and the resolved namespace (each 'default' when not
\* configured).
C24_EveryRequestCarriesContext ==
    \A p \in Procs : \A r \in call[p].reqs :
        r.identity = ResolvedIdentity /\ r.namespace = ResolvedNamespace
\* C24, amended: a request carries identity and namespace only where the
\* addressing scheme of the server has a place for them; an identity that
\* is carried is the resolved identity, a namespace that is carried is the
\* resolved namespace.  In the username-routing server every request that
\* addresses a sandbox carries the resolved identity and the sandbox name
\* (so status, delete, pause, resume, execute and the settings push address
\* the pair that create submitted), and create, delete, pause and resume
\* carry the resolved namespace.
C24_ContextWhereAddressed ==
    \A p \in Procs :
        LET c == call[p]
        IN  /\ \A r \in c.reqs :
                  /\ r.identity # Undefined => r.identity = ResolvedIdentity
                  /\ r.namespace # Undefined => r.namespace = ResolvedNamespace
                  /\ (profile = "proxy" /\ r.kind # "list") =>
                        r.identity = ResolvedIdentity /\ r.name = Str(c.name)
                  /\ (profile = "proxy" /\ r.kind \in {"create", "delete", "pause", "resume"}) =>
                        r.namespace = ResolvedNamespace
            /\ \A r1, r2 \in c.reqs :
                  (profile = "proxy" /\ r1.kind = "create" /\ r2.kind \in {"status", "push"}) =>
                        r1.identity = r2.identity /\ r1.name = r2.name
\* with no username configured, a create of the username-routing server has
\* submitted ('default', s1) and has asked for the status of ('default', s1)
C24_Witness ==
    \E p \in Procs :
        /\ profile = "proxy" /\ Get(cfgFile.json, "username") = Undefined
        /\ call[p].op = "create" /\ call[p].pc = "done"
        /\ \E r1, r2 \in call[p].reqs :
              /\ r1.kind = "create" /\ r2.kind = "status"
              /\ r1.identity = Str("default") /\ r2.identity = Str("default")
              /\ r1.name = Str("s1") /\ r2.name = Str("s1")

\* an execute has returned a result built from the body of a success answer
ExecuteReturned(c) ==
    /\ c.op = "execute" /\ c.pc = "done" /\ c.n["exec"] = 1
    /\ Ok(c.resp) /\ c.resp.body.parses /\ CanRead(c.resp.body.json)
\* C25 as stated: the exit code execute returns is -1 if and only if the
\* success answer carries no exit code (the field, or the data object
\* around it, absent or null), and every reported code is returned as is.
C25_SentinelIffUnreported ==
    \A p \in Procs :
        LET c == call[p]
            returned == Get(Get(c.result, "result"), "exit_code")
        IN  ExecuteReturned(c) =>
              /\ returned = Num(-1) <=> ReportedExit(c.resp).t \in {"undefined", "null"}
              /\ ReportedExit(c.resp).t = "num" => returned = ReportedExit(c.resp)
\* C25, amended: the exit code execute returns is -1 whenever the success
\* answer carries no exit code, every reported code (0 and -1 included) is
\* returned as is, and so a returned -1 means "none reported" or "-1
\* reported".
C25_SentinelWhenUnreported ==
    \A p \in Procs :
        LET c == call[p]
            returned == Get(Get(c.result, "result"), "exit_code")
        IN  ExecuteReturned(c) =>
              /\ ReportedExit(c.resp).t \in {"undefined", "null"} => returned = Num(-1)
              /\ ReportedExit(c.resp).t = "num" => returned = ReportedExit(c.resp)
              /\ returned = Num(-1) =>
                    \/ ReportedExit(c.resp).t \in {"undefined", "null"}
                    \/ ReportedExit(c.resp) = Num(-1)
\* the backend answered 200 with exit_code: null and execute returned -1
C25_Witness ==
    \E p \in Procs :
        /\ ExecuteReturned(call[p])
        /\ ReportedExit(call[p].resp) = Null
        /\ Get(Get(call[p].result, "result"), "exit_code") = Num(-1)

PollingEndedNotReady(c) ==
    /\ profile = "proxyAuth" /\ c.op = "create" /\ c.pc = "done"
    /\ Accepted(c) /\ c.n["status"] >= 1 /\ c.readyAt = 0
\* C27: when polling ends without Ready, create returns a record that
\* carries the last-observed snapshot: name, namespace and service address
\* are those of the most recent status answer that was a success with a
\* parsable body (failed attempts after it do not erase it); when no
\* attempt succeeded they are the requested name and 'pending'; ready is
\* false.
C27_LastSnapshotReturned ==
    \A p \in Procs :
        LET c == call[p]
            record == Get(c.result, "sandbox")
            last == c.lastGood
        IN  PollingEndedNotReady(c) =>
              /\ ~IsFailureShape(c.result)
              /\ Get(record, "ready") = Bool(FALSE)
              /\ last = Undefined =>
                    /\ Get(record, "name") = Str(c.name)
                    /\ Get(record, "namespace") = Str("pending")
                    /\ Get(record, "serviceFQDN") = Str("pending")
              /\ \A f \in {"name", "namespace", "serviceFQDN"} :
                    GetOpt(last, f).t = "str" => Get(record, f) = GetOpt(last, f)

\* C28: once the backend has accepted the creation request, no outcome of
\* the status queries that follow (the backend unreachable, a non-success
\* answer, a body that does not parse, the sandbox not found) makes create
\* return the failure shape: a create that got as far as a status query
\* reports success.
C28_AcceptedCreateSucceeds ==
    \A p \in Procs :
        LET c == call[p]
        IN  (c.op = "create" /\ c.pc = "done" /\ Accepted(c) /\ c.n["status"] >= 1) =>
              ~IsFailureShape(c.result)

\* the execute round trip got a non-success HTTP answer
ExecuteRefused(c) ==
    /\ c.op = "execute" /\ c.pc = "done" /\ c.n["exec"] = 1
    /\ c.resp.kind = "http" /\ ~Ok(c.resp)
\* C29: when the execute round trip is answered with a non-success HTTP
\* status, execute returns the failure shape and its error text contains
\* the HTTP status code and the body of the answer.
C29_ExecFailureCarriesStatusAndBody ==
    \A p \in Procs :
        LET c == call[p]
            said == Pieces(Get(c.result, "error"))
        IN  ExecuteRefused(c) =>
              /\ IsFailureShape(c.result)
              /\ Num(c.resp.status) \in said
              /\ c.resp.body.parses => JsonOf(c.resp.body.json) \in said

\* the entries of the backend's answer to list, and the name of one
Listed(resp) ==
    IF resp.kind = "http" THEN Get(resp.body.json, "sandboxes") ELSE Get(resp.body.json, "items")
ListedName(resp, entry) ==
    IF resp.kind = "http" THEN Get(entry, "name") ELSE Get(Get(entry, "metadata"), "name")
\* C30: list preserves what the backend returned: a list that the backend
\* answered returns a success whose entries are the backend's entries, one
\* for one and in the backend's order, whose count is the number of
\* entries, and which is empty with count 0 (and not the failure shape)
\* when the backend has no sandboxes.
C30_ListAsReturned ==
    \A p \in Procs :
        LET c == call[p]
            got == Listed(c.resp)
            out == Get(c.result, "sandboxes")
        IN  (c.op = "list" /\ c.pc = "done" /\ HealthyList(c.resp)) =>
              /\ ~IsFailureShape(c.result)
              /\ out.t = "arr" /\ Len(out.items) = Len(got.items)
              /\ \A i \in DOMAIN got.items :
                    Get(out.items[i], "name") = ListedName(c.resp, got.items[i])
              /\ Get(c.result, "count") = Num(Len(got.items))
              /\ (\A n \in Names : sandboxes[n] = "absent") =>
                    out.items = <<>> /\ Get(c.result, "count") = Num(0)
\* a list of a proxy server returned s2 before s1, as the backend had them
C30_Witness ==
    \E p \in Procs :
        /\ profile \in HttpProfiles /\ call[p].op = "list" /\ call[p].pc = "done"
        /\ HealthyList(call[p].resp)
        /\ Get(call[p].result, "count") = Num(2)
        /\ Get(Get(call[p].result, "sandboxes").items[1], "name") = Str("s2")
        /\ Get(Get(call[p].result, "sandboxes").items[2], "name") = Str("s1")
\* a list returned the empty result while the backend held no sandbox
C30_EmptyListReturned ==
    \E p \in Procs :
        /\ call[p].op = "list" /\ call[p].pc = "done" /\ HealthyList(call[p].resp)
        /\ \A n \in Names : sandboxes[n] = "absent"
        /\ Get(call[p].result, "sandboxes") = Arr(<<>>)
        /\ Get(call[p].result, "count") = Num(0)

\* the ready value of the record a create returned
ReturnedReady(c) == Get(Get(c.result, "sandbox"), "ready")
\* C31: create never reports readiness it did not observe: the record of a
\* create that succeeded has ready = true only if a status answer of that
\* same call reported the sandbox ready, and in the polling server it has
\* ready = true exactly when the loop was left through the ready branch,
\* which is when the last status answer of the call was the one that
\* reported ready.
C31_ReadyOnlyIfObserved ==
    \A p \in Procs :
        LET c == call[p]
        IN  (c.op = "create" /\ c.pc = "done" /\ ~IsFailureShape(c.result)) =>
              /\ ReturnedReady(c) \in {Bool(TRUE), Bool(FALSE)}
              /\ ReturnedReady(c) = Bool(TRUE) => c.readyAt # 0
              /\ profile = "proxyAuth" =>
                    /\ ReturnedReady(c) = Bool(TRUE) <=> c.ready
                    /\ c.ready <=> (c.readyAt # 0 /\ c.readyAt = c.n["status"])
\* a polling create returned ready = true, seen at its third status query
C31_Witness ==
    \E p \in Procs :
        /\ profile = "proxyAuth" /\ call[p].op = "create" /\ call[p].pc = "done"
        /\ ReturnedReady(call[p]) = Bool(TRUE)
        /\ call[p].readyAt = 3 /\ call[p].n["status"] = 3

\* C32: within one create the steps are strictly ordered: no delay, status
\* query or settings push happens before the one creation request has been
\* answered with acceptance; every status query is sent right after one
\* delay of its own, so the delays awaited equal the status queries sent
\* and the first query follows a full delay; the settings push is sent
\* only after a status query.
C32_CreateStepsOrdered ==
    \A p \in Procs :
        LET c == call[p]
        IN  c.op = "create" =>
              /\ c.n["create"] <= 1
              /\ (c.delays > 0 \/ c.n["status"] > 0 \/ c.n["push"] > 0) =>
                    c.n["create"] = 1 /\ Accepted(c)
              /\ c.delays = c.n["status"]
              /\ ~c.early
              /\ c.n["push"] <= 1
              /\ c.n["push"] = 1 => c.n["status"] >= 1
\* a polling create has sent its fourth status query after four delays
C32_Witness ==
    \E p \in Procs :
        /\ profile = "proxyAuth" /\ call[p].op = "create"
        /\ call[p].n["status"] = 4 /\ call[p].delays = 4

\* C33: in the kubectl server the manifest file that create wrote no longer
\* exists when create has returned, on every path: after an apply that
\* succeeded, after an apply that failed, after a failure of a later step.
C33_ManifestRemoved ==
    \A p \in Procs :
        LET c == call[p]
        IN  (profile = "kubectl" /\ c.op = "create" /\ c.pc = "done"
                /\ c.tmpFile # <<>>) =>
              c.tmpFile \notin files

\* C34: in the kubectl server, while a create is about to apply the
\* manifest it wrote, the file is there (no other call has deleted it) and
\* it is that call's own: no other create running at the same time has
\* written, or is about to delete, a file of the same path.
C34_ManifestIsOwn ==
    \A p, q \in Procs :
        (profile = "kubectl" /\ p # q /\ call[p].op = "create" /\ call[p].pc = "apply") =>
            /\ call[p].tmpFile \in files
            /\ ~(call[q].op = "create" /\ call[q].pc \in {"apply", "unlink"}
                    /\ call[q].tmpFile = call[p].tmpFile)

\* the pod query failed, printed no JSON, or found no pods
NoPodFound(resp) ==
    \/ resp.status # 0
    \/ ~resp.body.parses
    \/ Get(resp.body.json, "items") = Arr(<<>>)
\* C35: in the kubectl server getStatus tolerates a failure of the pod
\* lookup: once the sandbox query has returned the sandbox, getStatus
\* returns a record and not the failure shape whatever the pod query does,
\* with podName and podStatus 'unknown' when the pod query failed or found
\* no pods; a getStatus that returned the failure shape did so on the
\* answer of the sandbox query, before any pod query, or for a sandbox
\* answer that holds no sandbox.
C35_PodLookupTolerated ==
    \A p \in Procs :
        LET c == call[p]
        IN  (profile = "kubectl" /\ c.op = "status" /\ c.pc = "done") =>
              /\ (c.n["pods"] = 1 /\ CanRead(Get(c.sandboxData, "metadata"))) =>
                    /\ ~IsFailureShape(c.result)
                    /\ NoPodFound(c.resp) =>
                          /\ Get(c.result, "podName") = Str("unknown")
                          /\ Get(c.result, "podStatus") = Str("unknown")
              /\ IsFailureShape(c.result) =>
                    \/ c.n["status"] = 0
                    \/ c.n["pods"] = 0
                    \/ ~CanRead(Get(c.sandboxData, "metadata"))
\* kubectl get pods failed and getStatus returned the sandbox with the
\* pod 'unknown'
C35_Witness ==
    \E p \in Procs :
        /\ profile = "kubectl" /\ call[p].op = "status" /\ call[p].pc = "done"
        /\ call[p].n["pods"] = 1 /\ call[p].resp.status # 0
        /\ Get(call[p].result, "name") = Str(call[p].name)
        /\ Get(call[p].result, "podName") = Str("unknown")
        /\ Get(call[p].result, "podStatus") = Str("unknown")
====
